---- MODULE Spec2Model ----
(***************************************************************************)
(* State-machine model of the restapi token-lifecycle subsystem:           *)
(* session tokens (jwt), one-time password-reset tokens (users_otp) and    *)
(* email-verification tokens (users_verified), and the request handlers    *)
(* that issue, validate and consume them.  Every handler is split into one *)
(* action per storage round trip, so that requests of different clients    *)
(* interleave exactly where the awaits of the code allow it.               *)
(***************************************************************************)
EXTENDS Integers, Sequences, FiniteSets, TLC

VARIABLES
    now,            \* wall clock, in ticks of 1/TicksPerSec second
    env,            \* environment variables read by the handlers
    users,          \* table users, index = users.id
    users_tokens,   \* table users_tokens; iat = history, time of issuance
    users_otp,      \* table users_otp, index = users_otp.id
    users_verified, \* table users_verified, index = users_verified.id
    users_data,     \* table users_data, index = users_data.id
    uuid_ctr,       \* number of uuids handed out by get_uuid
    conn,           \* per client: the state of its connection
    server,         \* the accept loop and the descriptors it cannot reclaim
    req,            \* per client: the request in flight and its locals
    resp,           \* the response returned by the last step, if any
    otp_ok,         \* history: per users_otp.id, number of 200 responses
    verify_ok,      \* history: per verify token, number of verifications
    verify_issued   \* history: <<user_id, token>> once stored in users_verified

vars == <<now, env, users, users_tokens, users_otp, users_verified,
          users_data, uuid_ctr, conn, server, req, resp, otp_ok, verify_ok,
          verify_issued>>

db == <<users, users_tokens, users_otp, users_verified, users_data>>
hist == <<otp_ok, verify_ok, verify_issued>>

----------------------------------------------------------------------------
(* Bounds *)

MaxOtp == 1
MaxTime == 2
TicksPerSec == 2
MaxUuid == 2
MaxData == 1
MaxOpen == 2

Procs == {"c1", "c2"}
Emails == {"a@email.com", "b@email.com"}
Passwords == {"pw0", "pw1", "pw2"}

NoEmail == ""
NoPassword == ""

----------------------------------------------------------------------------
(* Session token codec *)

NoHeader ==
    [present |-> FALSE, ascii |-> TRUE, valid |-> FALSE, sub |-> NoEmail,
     exp |-> 0]
BadToken ==
    [present |-> TRUE, ascii |-> TRUE, valid |-> FALSE, sub |-> NoEmail,
     exp |-> 0]

\* a header value with a byte outside visible ascii: HeaderValue::to_str
\* fails on it
OpaqueHeader ==
    [present |-> TRUE, ascii |-> FALSE, valid |-> FALSE, sub |-> NoEmail,
     exp |-> 0]

\* default leeway of Validation::new
Leeway == 0

get_current_timestamp == now \div TicksPerSec

get_expiration_epoch_time(seconds_in_future) ==
    get_current_timestamp + seconds_in_future

get_token_expiration_in_seconds == env.token_exp

create_token(uid) ==
    [present |-> TRUE, ascii |-> TRUE, valid |-> TRUE, sub |-> uid,
     exp |-> get_expiration_epoch_time(get_token_expiration_in_seconds)]

\* the same decode with one second of leeway on the expiration
decode_with_leeway(token, uid) ==
    IF ~token.valid THEN "InvalidToken"
    ELSE IF token.exp < get_current_timestamp - 1 THEN "ExpiredSignature"
    ELSE IF token.sub # uid THEN "InvalidSubject"
    ELSE "Ok"

\* jsonwebtoken::decode with Validation { sub: Some(uid), ..new(ES256) }
decode(token, uid) ==
    IF ~token.valid THEN "InvalidToken"
    ELSE IF token.exp < get_current_timestamp - Leeway THEN "ExpiredSignature"
    ELSE IF token.sub # uid THEN "InvalidSubject"
    ELSE "Ok"

validate_token(token, uid) == decode(token, uid)

----------------------------------------------------------------------------
(* Storage reads *)

get_user_by_id(id) ==
    IF id \in 1..Len(users) THEN [found |-> TRUE, m |-> users[id]]
    ELSE [found |-> FALSE,
          m |-> [email |-> NoEmail, password |-> NoPassword,
                 state |-> -1, verified |-> -1]]

\* the same rows selected by the token alone
MatchOtp_token_only(user_id, email, token) ==
    {i \in 1..Len(users_otp) : users_otp[i].token = token}

\* ids of the users_otp rows matching (user_id, token, email)
MatchOtp(user_id, email, token) ==
    {i \in 1..Len(users_otp) :
        /\ users_otp[i].user_id = user_id
        /\ users_otp[i].token = token
        /\ users_otp[i].email = email}

Min(S) == CHOOSE x \in S : \A y \in S : x <= y

\* SELECT ... WHERE user_id AND token AND email LIMIT 1: row id, 0 if none
get_user_otp(user_id, email, token) ==
    IF MatchOtp(user_id, email, token) = {} THEN 0
    ELSE Min(MatchOtp(user_id, email, token))

\* users_verified.verify_date of a record never verified: NULL
NullDate == -1

VerifyRows(user_id) ==
    {i \in 1..Len(users_verified) : users_verified[i].user_id = user_id}

\* SELECT ... WHERE user_id LIMIT 1: row id, 0 if none
get_user_verify_by_user_id(user_id) ==
    IF VerifyRows(user_id) = {} THEN 0 ELSE Min(VerifyRows(user_id))

is_verification_enabled == env.verification_enabled
is_verification_required == env.verification_required

\* whole seconds of (a - b), truncated toward zero (chrono num_seconds)
num_seconds(a, b) ==
    IF a >= b THEN (a - b) \div TicksPerSec
    ELSE 0 - ((b - a) \div TicksPerSec)

----------------------------------------------------------------------------
(* Authenticator *)

\* the result of validate_user_token: Ok or Err, the reason that is logged,
\* and as history the storage, header and codec operations it performed
AuthResult(ok, why, steps) == [ok |-> ok, why |-> why, steps |-> steps]

\* the part of validate_user_token that follows the account lookup:
\* headers.contains_key, headers.get(..).to_str().unwrap(), validate_token
check_header(hdr, email, done) ==
    IF ~hdr.present
    THEN AuthResult(FALSE, "missing_header", done \o <<"headers">>)
    ELSE IF ~hdr.ascii
    THEN AuthResult(FALSE, "panic", done \o <<"headers">>)
    ELSE AuthResult(validate_token(hdr, email) = "Ok",
                    validate_token(hdr, email),
                    done \o <<"headers", "validate_token">>)

\* the same authenticator without the check of users.state
validate_user_token_any_state(hdr, user_id) ==
    LET u == get_user_by_id(user_id) IN
    IF ~u.found THEN AuthResult(FALSE, "no_user", <<"get_user_by_id">>)
    ELSE check_header(hdr, u.m.email, <<"get_user_by_id">>)

\* the same authenticator with the header and the codec before the account
validate_user_token_header_first(hdr, user_id) ==
    LET u == get_user_by_id(user_id)
        h == check_header(hdr, u.m.email, <<>>) IN
    IF ~h.ok THEN h
    ELSE IF ~u.found
    THEN AuthResult(FALSE, "no_user", h.steps \o <<"get_user_by_id">>)
    ELSE IF u.m.state # 0
    THEN AuthResult(FALSE, "inactive", h.steps \o <<"get_user_by_id">>)
    ELSE AuthResult(TRUE, "Ok", h.steps \o <<"get_user_by_id">>)

validate_user_token(hdr, user_id) ==
    LET u == get_user_by_id(user_id) IN
    IF ~u.found THEN AuthResult(FALSE, "no_user", <<"get_user_by_id">>)
    ELSE IF u.m.state # 0
    THEN AuthResult(FALSE, "inactive", <<"get_user_by_id">>)
    ELSE check_header(hdr, u.m.email, <<"get_user_by_id">>)

----------------------------------------------------------------------------
(* Requests and responses *)

\* history: the method and the path of a request the dispatcher answers
\* itself; a path is the sequence of its segments
NoUri == [method |-> "none", path |-> <<>>]

IdleReq ==
    [op |-> "none", pc |-> "idle", user_id |-> 0, email |-> NoEmail,
     token |-> 0, password |-> NoPassword, hdr |-> NoHeader,
     m_email |-> NoEmail, fields |-> {}, row |-> 0, data_id |-> 0,
     filename |-> "",
     authed |-> FALSE, wrote |-> {}, pre |-> "none", prow |-> 0,
     pver |-> -1, acct |-> "none", jwt |-> "none", steps |-> <<>>,
     trips |-> 0, uri |-> NoUri,
     \* conn, the PooledConnection of db_pool.get(): a local of the handler
     pooled |-> FALSE]

NoResp ==
    [op |-> "none", outcome |-> "none", user_id |-> 0, id |-> 0,
     email |-> NoEmail, token |-> 0, password |-> NoPassword,
     hdr |-> NoHeader,
     authed |-> FALSE, wrote |-> {}, pre |-> "none", prow |-> 0,
     pver |-> -1, acct |-> "none", jwt |-> "none", steps |-> <<>>,
     trips |-> 0, uri |-> NoUri]

NewReq(op, user_id, email, token, password, hdr) ==
    [IdleReq EXCEPT !.op = op, !.user_id = user_id, !.email = email,
                    !.token = token, !.password = password, !.hdr = hdr]

\* headers a client can send: none, garbage, or a token the server issued
Headers == {NoHeader, BadToken} \cup {t.token : t \in users_tokens}

\* a connection no task serves, and one whose handshake completed
ClosedConn == [state |-> "closed", hello |-> "none", alpn |-> "none"]
EstablishedConn ==
    [state |-> "established", hello |-> "TLSv1.3", alpn |-> "http/1.1"]

\* what the client of request r observes, with the history of r
Response(r, outcome, id, w) ==
    [op |-> r.op, outcome |-> outcome, user_id |-> r.user_id,
     id |-> id, email |-> r.email, token |-> r.token,
     password |-> r.password, hdr |-> r.hdr, authed |-> r.authed,
     wrote |-> r.wrote \cup w, pre |-> r.pre, prow |-> r.prow,
     pver |-> r.pver, acct |-> r.acct, jwt |-> r.jwt, steps |-> r.steps,
     trips |-> r.trips, uri |-> r.uri]

\* a return that keeps the PooledConnection of the handler out of the pool
Respond_leaking(p, r, outcome, id, w) ==
    /\ resp' = Response(r, outcome, id, w)
    /\ req' = [req EXCEPT ![p] = [IdleReq EXCEPT !.pooled = r.pooled]]
    /\ conn' = conn

\* the request r of client p returns a response, which drops the locals of
\* the handler; w = tables written by the final step
Respond(p, r, outcome, id, w) ==
    /\ resp' = Response(r, outcome, id, w)
    /\ req' = [req EXCEPT ![p] = IdleReq]
    /\ conn' = conn

\* the request r of client p suspends at its next storage round trip,
\* holding the PooledConnection it checked out; trips counts the round
\* trips behind the opening step of the handler
Continue(p, r, pc, w) ==
    /\ req' = [req EXCEPT ![p] = [r EXCEPT !.pc = pc, !.wrote = @ \cup w,
                                           !.trips = @ + 1,
                                           !.pooled = TRUE]]
    /\ resp' = NoResp
    /\ conn' = conn

\* an unwrap of the handler of request r panics: the task of the
\* connection ends without a response and the stream is dropped
Panic(p, r) ==
    /\ resp' = Response(r, "Panic", 0, {})
    /\ req' = [req EXCEPT ![p] = IdleReq]
    /\ conn' = [conn EXCEPT ![p] = ClosedConn]

\* the same without the garbage token
SentHeaders == Headers \ {BadToken}

InFlight(ops) == Cardinality({q \in Procs : req[q].op \in ops})

\* history: the claimed account as the authenticator finds it
AcctPre(user_id) ==
    IF ~get_user_by_id(user_id).found THEN "absent"
    ELSE IF get_user_by_id(user_id).m.state = 0 THEN "active" ELSE "inactive"

\* history: what the codec alone says about the presented header
JwtPre(hdr, user_id) ==
    IF ~hdr.present THEN "missing"
    ELSE IF ~hdr.ascii THEN "opaque"
    ELSE validate_token(hdr, get_user_by_id(user_id).m.email)

\* the request r with the history of its call of validate_user_token
Authenticated(r) ==
    [r EXCEPT !.acct = AcctPre(r.user_id),
              !.jwt = JwtPre(r.hdr, r.user_id),
              !.steps = validate_user_token(r.hdr, r.user_id).steps,
              !.authed = validate_user_token(r.hdr, r.user_id).ok]

\* a handler that goes on whatever validate_user_token returned
Authenticate_unchecked(p, r, pc) ==
    IF validate_user_token(r.hdr, r.user_id).why = "panic"
    THEN Panic(p, Authenticated(r))
    ELSE Continue(p, Authenticated(r), pc, {})

\* the call of validate_user_token that opens a handler: on Err the handler
\* answers 400 "... due to invalid token", on Ok it goes on to pc
Authenticate(p, r, pc) ==
    IF validate_user_token(r.hdr, r.user_id).why = "panic"
    THEN Panic(p, Authenticated(r))
    ELSE IF validate_user_token(r.hdr, r.user_id).ok
    THEN Continue(p, Authenticated(r), pc, {})
    ELSE Respond(p, Authenticated(r), "Unauthorized", 0, {})

----------------------------------------------------------------------------
(* Clock *)

Tick ==
    /\ now < MaxTime
    /\ now' = now + 1
    /\ resp' = NoResp
    /\ UNCHANGED <<env, server, db, uuid_ctr, conn, req, hist>>

----------------------------------------------------------------------------
(* POST /user : create_user *)

\* argon2 hash_encoded with the server salt: deterministic and injective
argon_hash_encoded(password) == [argon2 |-> password]

EmailInUse(email) == \E i \in 1..Len(users) : users[i].email = email

UuidOps == {"create_user", "update_user", "create_otp"}

\* INSERT INTO users ... RETURNING
create_user_insert_upto(max, p, email, password) ==
    /\ req[p].pc = "idle"
    /\ uuid_ctr + InFlight(UuidOps) < max
    /\ LET r == NewReq("create_user", 0, email, 0, password, NoHeader) IN
       IF EmailInUse(email)
       THEN /\ Respond(p, r, "Conflict", 0, {})
            /\ UNCHANGED users
       ELSE /\ users' = Append(users,
                   [email |-> email,
                    password |-> argon_hash_encoded(password),
                    state |-> 0,
                    verified |-> IF is_verification_enabled THEN 0 ELSE 1])
            /\ Continue(p, [r EXCEPT !.user_id = Len(users) + 1],
                        "cu_token", {"users"})
    /\ UNCHANGED <<users_data, now, env, server, users_tokens, users_otp,
                   users_verified, uuid_ctr, hist>>

create_user_insert(p, email, password) ==
    create_user_insert_upto(MaxUuid, p, email, password)

\* create_user_token: INSERT INTO users_tokens; then the prelude of
\* upsert_user_verification (get_uuid, Utc::now) when verification is enabled
create_user_create_token(p) ==
    /\ req[p].pc = "cu_token"
    /\ users_tokens' = users_tokens \cup
            {[user_id |-> req[p].user_id, token |-> create_token(req[p].email),
              iat |-> now]}
    /\ IF is_verification_enabled
       THEN /\ uuid_ctr' = uuid_ctr + 1
            /\ Continue(p, [req[p] EXCEPT
                                !.token = uuid_ctr + 1,
                                !.row = now + env.verify_exp * TicksPerSec],
                        "cu_verify", {"users_tokens"})
       ELSE /\ Respond(p, req[p], "ok", req[p].user_id, {"users_tokens"})
            /\ UNCHANGED uuid_ctr
    /\ UNCHANGED <<users_data, now, env, server, users, users_otp,
                   users_verified, hist>>

VerifyEmailInUse(email, except) ==
    \E i \in 1..Len(users_verified) :
        users_verified[i].email = email /\ i \notin except

\* upsert_user_verification(is_new_user = true): INSERT INTO users_verified;
\* a failure is only logged, the response is 201 either way
create_user_upsert(p) ==
    /\ req[p].pc = "cu_verify"
    /\ IF VerifyEmailInUse(req[p].email, {})
       THEN UNCHANGED <<users_verified, verify_issued>>
       ELSE /\ users_verified' = Append(users_verified,
                [user_id |-> req[p].user_id, token |-> req[p].token,
                 email |-> req[p].email,
                 state |-> IF is_verification_enabled THEN 0 ELSE 1,
                 exp_date |-> req[p].row, verify_date |-> NullDate])
            /\ verify_issued' = verify_issued \cup
                                    {<<req[p].user_id, req[p].token>>}
    /\ Respond(p, req[p], "ok", req[p].user_id, {"users_verified"})
    /\ UNCHANGED <<now, env, server, users, users_tokens, users_otp,
                   users_data, uuid_ctr, otp_ok, verify_ok>>

----------------------------------------------------------------------------
(* POST /user/password/reset : create_otp *)

\* validate_user_token; max caps the records of users_otp
create_otp_validate_upto(max, p, user_id, email, hdr) ==
    /\ req[p].pc = "idle"
    /\ Len(users_otp) + InFlight({"create_otp"}) < max
    /\ uuid_ctr + InFlight(UuidOps) < MaxUuid
    /\ LET r == NewReq("create_otp", user_id, email, 0, NoPassword, hdr) IN
       Authenticate(p, r, "co_get_user")
    /\ UNCHANGED <<now, env, server, db, uuid_ctr, hist>>

create_otp_validate(p, user_id, email, hdr) ==
    create_otp_validate_upto(MaxOtp, p, user_id, email, hdr)

\* get_user_by_id, the email check, then Utc::now and get_uuid
create_otp_get_user(p) ==
    /\ req[p].pc = "co_get_user"
    /\ LET u == get_user_by_id(req[p].user_id) IN
       IF ~u.found
       THEN Respond(p, req[p], "NotFound", 0, {}) /\ UNCHANGED uuid_ctr
       ELSE IF u.m.email # req[p].email
       THEN Respond(p, req[p], "EmailMismatch", 0, {}) /\ UNCHANGED uuid_ctr
       ELSE /\ uuid_ctr' = uuid_ctr + 1
            /\ Continue(p, [req[p] EXCEPT
                                !.token = uuid_ctr + 1,
                                !.row = now + env.otp_exp * TicksPerSec],
                        "co_insert", {})
    /\ UNCHANGED <<now, env, server, db, hist>>

\* the same INSERT preceded by an UPDATE that retires the earlier tokens of
\* the account
create_otp_insert_retiring(p) ==
    /\ req[p].pc = "co_insert"
    /\ users_otp' = Append([i \in 1..Len(users_otp) |->
                                IF users_otp[i].user_id = req[p].user_id
                                THEN [users_otp[i] EXCEPT !.state = 1]
                                ELSE users_otp[i]],
            [user_id |-> req[p].user_id, token |-> req[p].token,
             email |-> req[p].email, state |-> 0, exp_date |-> req[p].row])
    /\ otp_ok' = Append(otp_ok, 0)
    /\ Respond(p, req[p], "ok", Len(users_otp) + 1, {"users_otp"})
    /\ UNCHANGED <<verify_issued, users_data, now, env, server, users,
                   users_tokens, users_verified, uuid_ctr, verify_ok>>

\* INSERT INTO users_otp ... state 0 ... RETURNING
create_otp_insert(p) ==
    /\ req[p].pc = "co_insert"
    /\ users_otp' = Append(users_otp,
            [user_id |-> req[p].user_id, token |-> req[p].token,
             email |-> req[p].email, state |-> 0, exp_date |-> req[p].row])
    /\ otp_ok' = Append(otp_ok, 0)
    /\ Respond(p, req[p], "ok", Len(users_otp) + 1, {"users_otp"})
    /\ UNCHANGED <<verify_issued, users_data, now, env, server, users,
                   users_tokens, users_verified, uuid_ctr, verify_ok>>

----------------------------------------------------------------------------
(* POST /user/password/change : consume_user_otp *)

\* history: what the users_otp row named by the request looks like when the
\* request arrives
OtpPre(user_id, email, token) ==
    IF MatchOtp(user_id, email, token) = {} THEN "absent"
    ELSE IF users_otp[get_user_otp(user_id, email, token)].state = 0
         THEN "issued" ELSE "consumed"

\* validate_user_token
consume_user_otp_validate(p, user_id, email, token, password, hdr) ==
    /\ req[p].pc = "idle"
    /\ LET r == [NewReq("consume_user_otp", user_id, email, token,
                        password, hdr)
                    EXCEPT !.pre = OtpPre(user_id, email, token),
                           !.prow = get_user_otp(user_id, email, token)] IN
       Authenticate(p, r, "cotp_get_user")
    /\ UNCHANGED <<now, env, server, db, uuid_ctr, hist>>

\* get_user_by_id and the email check
consume_user_otp_get_user(p) ==
    /\ req[p].pc = "cotp_get_user"
    /\ LET u == get_user_by_id(req[p].user_id) IN
       IF ~u.found THEN Respond(p, req[p], "NotFound", 0, {})
       ELSE IF u.m.email # req[p].email /\ req[p].email # u.m.email
       THEN Respond(p, req[p], "EmailMismatch", 0, {})
       ELSE Continue(p, req[p], "cotp_get_otp", {})
    /\ UNCHANGED <<now, env, server, db, uuid_ctr, hist>>

\* now - exp_date > 0 in whole seconds
otp_expired(exp_date) == num_seconds(now, exp_date) > 0

\* get_user_otp, the token comparison, Utc::now and the expiration check
consume_user_otp_get_otp(p) ==
    /\ req[p].pc = "cotp_get_otp"
    /\ LET id == get_user_otp(req[p].user_id, req[p].email, req[p].token) IN
       IF id = 0 THEN Respond(p, req[p], "NotFound", 0, {})
       ELSE IF req[p].token # users_otp[id].token
       THEN Respond(p, req[p], "TokenMismatch", 0, {})
       ELSE IF otp_expired(users_otp[id].exp_date)
       THEN Respond(p, req[p], "Expired", 0, {})
       ELSE Continue(p, req[p], "cotp_update_otp", {})
    /\ UNCHANGED <<now, env, server, db, uuid_ctr, hist>>

\* the same UPDATE without its "state = 0" condition
consume_rows_any_state(user_id, email, token) ==
    MatchOtp(user_id, email, token)

\* rows selected by UPDATE users_otp ... WHERE user_id AND state = 0 AND
\* token AND email
consume_rows(user_id, email, token) ==
    {i \in MatchOtp(user_id, email, token) : users_otp[i].state = 0}

\* UPDATE users_otp SET state = 1 ... RETURNING
consume_user_otp_update_otp(p) ==
    /\ req[p].pc = "cotp_update_otp"
    /\ LET rows == consume_rows(req[p].user_id, req[p].email, req[p].token) IN
       /\ users_otp' = [i \in 1..Len(users_otp) |->
              IF i \in rows THEN [users_otp[i] EXCEPT !.state = 1]
              ELSE users_otp[i]]
       /\ IF rows = {}
          THEN Respond(p, req[p], "AlreadyConsumed", 0, {})
          ELSE Continue(p, [req[p] EXCEPT !.row = Min(rows)],
                        "cotp_update_user", {"users_otp"})
    /\ UNCHANGED <<users_data, now, env, server, users, users_tokens,
                   users_verified, uuid_ctr, hist>>

\* UPDATE users SET password = new hash WHERE users.id = user_id; 200
consume_user_otp_update_user(p) ==
    /\ req[p].pc = "cotp_update_user"
    /\ users' = [i \in 1..Len(users) |->
           IF i = req[p].user_id
           THEN [users[i] EXCEPT
                    !.password = argon_hash_encoded(req[p].password)]
           ELSE users[i]]
    /\ otp_ok' = [otp_ok EXCEPT ![req[p].row] = @ + 1]
    /\ Respond(p, req[p], "ok", req[p].row, {"users.password"})
    /\ UNCHANGED <<verify_issued, users_data, now, env, server, users_tokens,
                   users_otp, users_verified, uuid_ctr, verify_ok>>

\* the Err arm of the UPDATE users for a storage that undoes the UPDATE
\* users_otp of the request
consume_user_otp_update_user_err_rollback(p) ==
    /\ req[p].pc = "cotp_update_user"
    /\ users_otp' = [users_otp EXCEPT ![req[p].row].state = 0]
    /\ Respond(p, req[p], "StorageError", 0, {})
    /\ UNCHANGED <<now, env, server, users, users_tokens, users_verified,
                   users_data, uuid_ctr, hist>>

\* the Err arm of conn.query for the UPDATE users: 400 "... failed to reset
\* user's password", the statements before it stay as they are
consume_user_otp_update_user_err(p) ==
    /\ req[p].pc = "cotp_update_user"
    /\ Respond(p, req[p], "StorageError", 0, {})
    /\ UNCHANGED <<now, env, server, db, uuid_ctr, hist>>

\* the client goes away while its request waits on storage: the task of
\* the connection ends and drops the future of the handler at its await
cancel(p) ==
    /\ req[p].pc # "idle"
    /\ resp' = Response(req[p], "Cancelled", 0, {})
    /\ req' = [req EXCEPT ![p] = IdleReq]
    /\ conn' = [conn EXCEPT ![p] = ClosedConn]
    /\ UNCHANGED <<now, env, server, db, uuid_ctr, hist>>

----------------------------------------------------------------------------
(* DELETE /user : delete_user *)

\* validate_user_token
delete_user_validate(p, user_id, email, hdr) ==
    /\ req[p].pc = "idle"
    /\ LET r == NewReq("delete_user", user_id, email, 0, NoPassword, hdr) IN
       Authenticate(p, r, "du_update")
    /\ UNCHANGED <<now, env, server, db, uuid_ctr, hist>>

\* UPDATE users SET state = 1 WHERE email = <email of the body> RETURNING;
\* the body's email is put into the statement as it is, email is the value
\* of the literal the body carries
delete_user_update(p) ==
    /\ req[p].pc = "du_update"
    /\ LET rows == {i \in 1..Len(users) : users[i].email = req[p].email} IN
       /\ users' = [i \in 1..Len(users) |->
              IF i \in rows THEN [users[i] EXCEPT !.state = 1] ELSE users[i]]
       /\ IF rows = {}
          THEN Respond(p, req[p], "NotFound", 0, {})
          ELSE Respond(p, req[p], "ok", Min(rows), {"users.state"})
    /\ UNCHANGED <<users_data, now, env, server, users_tokens, users_otp,
                   users_verified, uuid_ctr, hist>>

----------------------------------------------------------------------------
(* GET /user/verify?u=user_id&t=token : verify_user *)

\* history: how the presented token relates to the users_verified record of
\* the account when the request arrives
VerifyPre(user_id, token) ==
    IF get_user_verify_by_user_id(user_id) = 0 THEN "absent"
    ELSE IF users_verified[get_user_verify_by_user_id(user_id)].token = token
    THEN "match"
    ELSE IF <<user_id, token>> \in verify_issued THEN "prior"
    ELSE "mismatch"

\* get_user_by_id, then the switch, the state and the verified checks
verify_user_get_user(p, user_id, token) ==
    /\ req[p].pc = "idle"
    /\ LET u == get_user_by_id(user_id)
           r == [NewReq("verify_user", user_id, NoEmail, token, NoPassword,
                        NoHeader)
                    EXCEPT !.pre = VerifyPre(user_id, token),
                           !.prow = get_user_verify_by_user_id(user_id),
                           !.pver = u.m.verified,
                           !.acct = AcctPre(user_id),
                           !.steps = <<"get_user_by_id">>] IN
       IF ~u.found THEN Respond(p, r, "NotFound", 0, {})
       ELSE IF ~is_verification_enabled THEN Respond(p, r, "ok", 0, {})
       ELSE IF u.m.state # 0 THEN Respond(p, r, "Inactive", 0, {})
       ELSE IF u.m.verified # 0 THEN Respond(p, r, "AlreadyVerified", 0, {})
       ELSE Continue(p, [r EXCEPT !.m_email = u.m.email], "vu_get_verify", {})
    /\ UNCHANGED <<now, env, server, db, uuid_ctr, hist>>

\* now - exp_date > 0 in whole seconds
verify_expired(exp_date) == num_seconds(now, exp_date) > 0

\* get_user_verify_by_user_id, Utc::now and the expiration check; the token
\* of the request is not compared with the token of the record
verify_user_get_verify(p) ==
    /\ req[p].pc = "vu_get_verify"
    /\ LET id == get_user_verify_by_user_id(req[p].user_id) IN
       IF id = 0 THEN Respond(p, req[p], "NotFound", 0, {})
       ELSE IF verify_expired(users_verified[id].exp_date)
       THEN Respond(p, req[p], "Expired", 0, {})
       ELSE Continue(p, [req[p] EXCEPT !.row = now], "vu_update_verified", {})
    /\ UNCHANGED <<now, env, server, db, uuid_ctr, hist>>

\* UPDATE users_verified SET email, state = 1, verify_date = the now of the
\* expiration check WHERE user_id RETURNING; the rows returned are kept for
\* the response
verify_user_update_verified(p) ==
    /\ req[p].pc = "vu_update_verified"
    /\ LET rows == VerifyRows(req[p].user_id) IN
       IF rows # {} /\ VerifyEmailInUse(req[p].m_email, rows)
       THEN /\ Respond(p, req[p], "Conflict", 0, {})
            /\ UNCHANGED users_verified
       ELSE /\ users_verified' = [i \in 1..Len(users_verified) |->
                   IF i \in rows
                   THEN [users_verified[i] EXCEPT !.email = req[p].m_email,
                                                  !.state = 1,
                                                  !.verify_date = req[p].row]
                   ELSE users_verified[i]]
            /\ Continue(p, [req[p] EXCEPT
                                !.row = IF rows = {} THEN 0 ELSE Min(rows)],
                        "vu_update_user",
                        IF rows = {} THEN {} ELSE {"users_verified"})
    /\ UNCHANGED <<now, env, server, users, users_tokens, users_otp,
                   users_data, uuid_ctr, hist>>

\* UPDATE users SET verified = 1 WHERE users.id = user_id; 200 when the first
\* update returned a row
verify_user_update_user(p) ==
    /\ req[p].pc = "vu_update_user"
    /\ users' = [i \in 1..Len(users) |->
           IF i = req[p].user_id THEN [users[i] EXCEPT !.verified = 1]
           ELSE users[i]]
    /\ IF req[p].row = 0
       THEN /\ Respond(p, req[p], "NotFound", 0, {"users.verified"})
            /\ UNCHANGED verify_ok
       ELSE /\ Respond(p, req[p], "ok", req[p].user_id, {"users.verified"})
            /\ verify_ok' = [verify_ok EXCEPT
                   ![users_verified[req[p].row].token] = @ + 1]
    /\ UNCHANGED <<now, env, server, users_tokens, users_otp, users_verified,
                   users_data, uuid_ctr, otp_ok, verify_issued>>

----------------------------------------------------------------------------
(* PUT /user : update_user *)

\* the SET list built by ApiReqUserUpdate::get_sql: the email part, and
\* whether the statement is valid sql.  password, state and role are joined
\* to the list with the comma on the wrong side, so a statement with any of
\* them, or with an empty list, is rejected by the database
get_sql(email, fields, user_model_email) ==
    LET set_email ==
            /\ email # NoEmail
            /\ is_verification_enabled => email # user_model_email
    IN [valid |-> fields = {} /\ set_email,
        email |-> email,
        verified |-> IF is_verification_enabled THEN 0 ELSE 1]

UpdateFields == {"password", "state", "role"}

\* the no-changes check, then validate_user_token
update_user_validate_upto(max, p, user_id, email, fields, hdr) ==
    /\ req[p].pc = "idle"
    /\ uuid_ctr + InFlight(UuidOps) < max
    /\ LET r == [NewReq("update_user", user_id, email, 0, NoPassword, hdr)
                    EXCEPT !.fields = fields] IN
       IF email = NoEmail /\ fields = {}
       THEN Respond(p, r, "NoChanges", 0, {})
       ELSE Authenticate(p, r, "uu_get_user")
    /\ UNCHANGED <<now, env, server, db, uuid_ctr, hist>>

update_user_validate(p, user_id, email, fields, hdr) ==
    update_user_validate_upto(MaxUuid, p, user_id, email, fields, hdr)

\* get_user_by_id
update_user_get_user(p) ==
    /\ req[p].pc = "uu_get_user"
    /\ LET u == get_user_by_id(req[p].user_id) IN
       IF ~u.found THEN Respond(p, req[p], "NotFound", 0, {})
       ELSE Continue(p, [req[p] EXCEPT !.m_email = u.m.email],
                     "uu_update", {})
    /\ UNCHANGED <<now, env, server, db, uuid_ctr, hist>>

EmailInUseBy(email, others) ==
    \E i \in 1..Len(users) : users[i].email = email /\ i \in others

\* the UPDATE users statement of get_sql; then, when verification is enabled
\* and the email changed, the prelude of upsert_user_verification
update_user_update(p) ==
    /\ req[p].pc = "uu_update"
    /\ LET q == get_sql(req[p].email, req[p].fields, req[p].m_email)
           id == req[p].user_id IN
       IF ~q.valid
       THEN /\ Respond(p, req[p], "BadSql", 0, {})
            /\ UNCHANGED <<users, uuid_ctr>>
       ELSE IF EmailInUseBy(q.email, (1..Len(users)) \ {id})
       THEN /\ Respond(p, req[p], "Conflict", 0, {})
            /\ UNCHANGED <<users, uuid_ctr>>
       ELSE /\ users' = [users EXCEPT ![id].email = q.email,
                                      ![id].verified = q.verified]
            /\ IF is_verification_enabled /\ req[p].email # req[p].m_email
               THEN /\ uuid_ctr' = uuid_ctr + 1
                    /\ Continue(p, [req[p] EXCEPT
                                 !.token = uuid_ctr + 1,
                                 !.row = now + env.verify_exp * TicksPerSec],
                                "uu_upsert_user", {"users.email"})
               ELSE /\ Respond(p, req[p], "ok", id, {"users.email"})
                    /\ UNCHANGED uuid_ctr
    /\ UNCHANGED <<now, env, server, users_tokens, users_otp, users_verified,
                   users_data, hist>>

\* upsert_user_verification(is_new_user = false): UPDATE users SET email,
\* verified = 0; a failure ends the upsert and is only logged
update_user_upsert_user(p) ==
    /\ req[p].pc = "uu_upsert_user"
    /\ LET id == req[p].user_id IN
       IF EmailInUseBy(req[p].email, (1..Len(users)) \ {id})
       THEN /\ Respond(p, req[p], "ok", id, {})
            /\ UNCHANGED users
       ELSE /\ users' = [users EXCEPT ![id].email = req[p].email,
                                      ![id].verified = 0]
            /\ Continue(p, req[p], "uu_upsert_verified", {"users.email"})
    /\ UNCHANGED <<now, env, server, users_tokens, users_otp, users_verified,
                   users_data, uuid_ctr, hist>>

\* the same upsert issuing the new token with an INSERT
update_user_upsert_verified_insert(p) ==
    /\ req[p].pc = "uu_upsert_verified"
    /\ users_verified' = Append(users_verified,
            [user_id |-> req[p].user_id, token |-> req[p].token,
             email |-> req[p].email,
             state |-> IF is_verification_enabled THEN 0 ELSE 1,
             exp_date |-> req[p].row, verify_date |-> NullDate])
    /\ verify_issued' = verify_issued \cup {<<req[p].user_id, req[p].token>>}
    /\ Respond(p, req[p], "ok", req[p].user_id, {"users_verified"})
    /\ UNCHANGED <<now, env, server, users, users_tokens, users_otp,
                   users_data, uuid_ctr, otp_ok, verify_ok>>

\* the same upsert keeping the token and the expiration of the record
update_user_upsert_verified_keep_token(p) ==
    /\ req[p].pc = "uu_upsert_verified"
    /\ users_verified' = [i \in 1..Len(users_verified) |->
           IF i \in VerifyRows(req[p].user_id)
           THEN [users_verified[i] EXCEPT !.email = req[p].email,
                                          !.state = 0,
                                          !.verify_date = NullDate]
           ELSE users_verified[i]]
    /\ Respond(p, req[p], "ok", req[p].user_id, {"users_verified"})
    /\ UNCHANGED <<now, env, server, users, users_tokens, users_otp,
                   users_data, uuid_ctr, hist>>

\* upsert_user_verification(is_new_user = false): UPDATE users_verified SET
\* email, state, token, exp_date WHERE user_id; 200 either way
update_user_upsert_verified(p) ==
    /\ req[p].pc = "uu_upsert_verified"
    /\ LET rows == VerifyRows(req[p].user_id) IN
       IF rows = {} \/ VerifyEmailInUse(req[p].email, rows)
       THEN /\ Respond(p, req[p], "ok", req[p].user_id, {})
            /\ UNCHANGED <<users_verified, verify_issued>>
       ELSE /\ users_verified' = [i \in 1..Len(users_verified) |->
                   IF i \in rows
                   THEN [users_verified[i] EXCEPT
                            !.email = req[p].email,
                            !.state = IF is_verification_enabled THEN 0 ELSE 1,
                            !.token = req[p].token,
                            !.exp_date = req[p].row,
                            !.verify_date = NullDate]
                   ELSE users_verified[i]]
            /\ verify_issued' = verify_issued \cup
                                    {<<req[p].user_id, req[p].token>>}
            /\ Respond(p, req[p], "ok", req[p].user_id, {"users_verified"})
    /\ UNCHANGED <<now, env, server, users, users_tokens, users_otp,
                   users_data, uuid_ctr, otp_ok, verify_ok>>

----------------------------------------------------------------------------
(* POST /login : login_user *)

\* the same SELECT without its "users.state = 0" condition
LoginRows_any_state(email) ==
    {i \in 1..Len(users) : users[i].email = email}

\* SELECT ... WHERE users.email = email AND users.state = 0
LoginRows(email) ==
    {i \in 1..Len(users) : users[i].email = email /\ users[i].state = 0}

\* history: the account with that email when the request arrives
EmailAcct(email) ==
    IF ~EmailInUse(email) THEN "absent"
    ELSE IF \E i \in 1..Len(users) :
                users[i].email = email /\ users[i].state = 0
    THEN "active" ELSE "inactive"

\* the SELECT, the password comparison and the verification-required check
login_user_select(p, email, password) ==
    /\ req[p].pc = "idle"
    /\ LET r == [NewReq("login_user", 0, email, 0, password, NoHeader)
                    EXCEPT !.acct = EmailAcct(email)]
           rows == LoginRows(email) IN
       IF rows = {} THEN Respond(p, r, "NotFound", 0, {})
       ELSE IF users[Min(rows)].password # argon_hash_encoded(password)
       THEN Respond(p, r, "BadPassword", 0, {})
       ELSE IF is_verification_required /\ users[Min(rows)].verified # 1
       THEN Respond(p, r, "Unverified", 0, {})
       ELSE Continue(p, [r EXCEPT !.user_id = Min(rows)], "lu_token", {})
    /\ UNCHANGED <<now, env, server, db, uuid_ctr, hist>>

\* create_user_token: INSERT INTO users_tokens; 201
login_user_create_token(p) ==
    /\ req[p].pc = "lu_token"
    /\ users_tokens' = users_tokens \cup
            {[user_id |-> req[p].user_id, token |-> create_token(req[p].email),
              iat |-> now]}
    /\ Respond(p, req[p], "ok", req[p].user_id, {"users_tokens"})
    /\ UNCHANGED <<now, env, server, users, users_otp, users_verified,
                   users_data, uuid_ctr, hist>>

----------------------------------------------------------------------------
(* GET /user/{id}, POST /user/search, POST /user/data/search : reads *)

get_user_validate(p, user_id, hdr) ==
    /\ req[p].pc = "idle"
    /\ Authenticate(p, NewReq("get_user", user_id, NoEmail, 0, NoPassword,
                              hdr), "gu_get")
    /\ UNCHANGED <<now, env, server, db, uuid_ctr, hist>>

\* get_user_by_id; 200 with the user
get_user_get(p) ==
    /\ req[p].pc = "gu_get"
    /\ IF get_user_by_id(req[p].user_id).found
       THEN Respond(p, req[p], "ok", req[p].user_id, {})
       ELSE Respond(p, req[p], "NotFound", 0, {})
    /\ UNCHANGED <<now, env, server, db, uuid_ctr, hist>>

search_users_validate(p, user_id, email, hdr) ==
    /\ req[p].pc = "idle"
    /\ Authenticate(p, NewReq("search_users", user_id, email, 0, NoPassword,
                              hdr), "su_query")
    /\ UNCHANGED <<now, env, server, db, uuid_ctr, hist>>

\* SELECT ... WHERE users.email ILIKE '%email%'; 200 with the rows
search_users_query(p) ==
    /\ req[p].pc = "su_query"
    /\ Respond(p, req[p], "ok", 0, {})
    /\ UNCHANGED <<now, env, server, db, uuid_ctr, hist>>

search_user_data_validate(p, user_id, hdr) ==
    /\ req[p].pc = "idle"
    /\ Authenticate(p, NewReq("search_user_data", user_id, NoEmail, 0,
                              NoPassword, hdr), "sd_query")
    /\ UNCHANGED <<now, env, server, db, uuid_ctr, hist>>

\* SELECT ... FROM users_data WHERE users_data.user_id = user_id; 200
search_user_data_query(p) ==
    /\ req[p].pc = "sd_query"
    /\ Respond(p, req[p], "ok", 0, {})
    /\ UNCHANGED <<now, env, server, db, uuid_ctr, hist>>

----------------------------------------------------------------------------
(* POST /user/data : upload_user_data;  PUT /user/data : update_user_data *)

Filenames == {"f0", "f1"}
NoFilename == ""

upload_user_data_validate(p, user_id, filename, hdr) ==
    /\ req[p].pc = "idle"
    /\ Len(users_data) + InFlight({"upload_user_data"}) < MaxData
    /\ Authenticate(p, [NewReq("upload_user_data", user_id, NoEmail, 0,
                               NoPassword, hdr)
                           EXCEPT !.filename = filename], "ud_insert")
    /\ UNCHANGED <<now, env, server, db, uuid_ctr, hist>>

\* INSERT INTO users_data ... RETURNING; 200
upload_user_data_insert(p) ==
    /\ req[p].pc = "ud_insert"
    /\ users_data' = Append(users_data,
            [user_id |-> req[p].user_id, filename |-> req[p].filename])
    /\ Respond(p, req[p], "ok", Len(users_data) + 1, {"users_data"})
    /\ UNCHANGED <<now, env, server, users, users_tokens, users_otp,
                   users_verified, uuid_ctr, hist>>

update_user_data_validate(p, user_id, data_id, filename, hdr) ==
    /\ req[p].pc = "idle"
    /\ Authenticate(p, [NewReq("update_user_data", user_id, NoEmail, 0,
                               NoPassword, hdr)
                           EXCEPT !.filename = filename, !.data_id = data_id],
                    "udd_update")
    /\ UNCHANGED <<now, env, server, db, uuid_ctr, hist>>

\* UPDATE users_data SET <fields> WHERE users_data.id = data_id RETURNING:
\* with no field to set the statement is not valid sql (500); 200 otherwise,
\* "no update data found" when no row has that id
update_user_data_update(p) ==
    /\ req[p].pc = "udd_update"
    /\ LET id == req[p].data_id IN
       IF req[p].filename = NoFilename
       THEN /\ Respond(p, req[p], "BadSql", 0, {})
            /\ UNCHANGED users_data
       ELSE IF id \notin 1..Len(users_data)
       THEN /\ Respond(p, req[p], "NotFound", 0, {})
            /\ UNCHANGED users_data
       ELSE /\ users_data' = [users_data EXCEPT
                                ![id].filename = req[p].filename]
            /\ Respond(p, req[p], "ok", id, {"users_data"})
    /\ UNCHANGED <<now, env, server, users, users_tokens, users_otp,
                   users_verified, uuid_ctr, hist>>

----------------------------------------------------------------------------
(* Connection acceptor : start_core_server *)

\* what a client opens the handshake with
ClientHellos == {"TLSv1.3", "TLSv1.2", "TLSv1.1", "plaintext"}

\* ServerConfig::builder().with_safe_defaults()
SupportedVersions == {"TLSv1.2", "TLSv1.3"}

\* server_config.alpn_protocols
AlpnProtocols == {"h2", "http/1.1"}

\* descriptors of the process held by accepted connections; MaxOpen is the
\* descriptor limit of the process
OpenFds ==
    server.abandoned
        + Cardinality({p \in Procs :
                        conn[p].state \in {"handshaking", "established"}})

\* a client completes a tcp connect: the connection waits in the backlog of
\* the listener
client_connect(p) ==
    /\ server.running
    /\ conn[p].state = "closed"
    /\ conn' = [conn EXCEPT ![p] = [state |-> "queued", hello |-> "none",
                                    alpn |-> "none"]]
    /\ resp' = NoResp
    /\ UNCHANGED <<now, env, server, db, uuid_ctr, req, hist>>

\* listener.accept().await.unwrap() and tokio::spawn of the connection
\* task; accept fails when the process is out of descriptors, and the
\* unwrap then panics in the task that runs the loop
accept(p) ==
    /\ server.running
    /\ conn[p].state = "queued"
    /\ IF OpenFds < MaxOpen
       THEN /\ conn' = [conn EXCEPT ![p].state = "handshaking"]
            /\ UNCHANGED server
       ELSE /\ server' = [server EXCEPT !.running = FALSE]
            /\ UNCHANGED conn
    /\ resp' = NoResp
    /\ UNCHANGED <<now, env, db, uuid_ctr, req, hist>>

\* tls_accept for a server that offers the handshake again to a connection
\* whose handshake failed
tls_accept_retry(p, hello) ==
    /\ server.running
    /\ \/ conn[p].state = "handshaking"
       \/ conn[p].state = "closed" /\ conn[p].hello # "none"
    /\ \E a \in AlpnProtocols :
        conn' = [conn EXCEPT ![p] =
                    IF hello \in SupportedVersions
                    THEN [state |-> "established", hello |-> hello,
                          alpn |-> a]
                    ELSE [state |-> "closed", hello |-> hello,
                          alpn |-> "none"]]
    /\ resp' = NoResp
    /\ UNCHANGED <<now, env, server, db, uuid_ctr, req, hist>>

\* acceptor.accept(conn).await: Ok(stream) goes on to serve_connection,
\* with the protocol of server_config.alpn_protocols the client asked for;
\* Err is logged and the task ends, which drops the connection
tls_accept(p, hello) ==
    /\ server.running
    /\ conn[p].state = "handshaking"
    /\ \E a \in AlpnProtocols :
        conn' = [conn EXCEPT ![p] =
                    IF hello \in SupportedVersions
                    THEN [state |-> "established", hello |-> hello,
                          alpn |-> a]
                    ELSE [state |-> "closed", hello |-> hello,
                          alpn |-> "none"]]
    /\ resp' = NoResp
    /\ UNCHANGED <<now, env, server, db, uuid_ctr, req, hist>>

\* the client goes away in the middle of the handshake without closing:
\* acceptor.accept has no timeout, the task and its descriptor stay
client_abandon(p) ==
    /\ server.running
    /\ conn[p].state = "handshaking"
    /\ server.abandoned < MaxOpen
    /\ server' = [server EXCEPT !.abandoned = @ + 1]
    /\ conn' = [conn EXCEPT ![p] = ClosedConn]
    /\ resp' = NoResp
    /\ UNCHANGED <<now, env, db, uuid_ctr, req, hist>>

\* the client closes between two requests: serve_connection returns
client_close(p) ==
    /\ server.running
    /\ conn[p].state = "established"
    /\ req[p].pc = "idle"
    /\ conn' = [conn EXCEPT ![p] = ClosedConn]
    /\ resp' = NoResp
    /\ UNCHANGED <<now, env, server, db, uuid_ctr, req, hist>>

\* the same without waiting for the handshake
Accepted(p) ==
    server.running /\ conn[p].state \in {"handshaking", "established"}

\* http.serve_connection(stream, ..) reads requests from the stream of the
\* Ok arm only
Established(p) == server.running /\ conn[p].state = "established"

----------------------------------------------------------------------------
(* Request bodies and the unwraps that open the handlers *)

\* bytes that are not the json of the request type
MalformedBody ==
    [json |-> FALSE, user_id |-> 0, email |-> NoEmail,
     password |-> NoPassword]

JsonBody(user_id, email, password) ==
    [json |-> TRUE, user_id |-> user_id, email |-> email,
     password |-> password]

\* POST /user: serde_json::from_slice(bytes).unwrap(), then
\* db_pool.get().await.unwrap(); pool = the checkout succeeds
create_user(p, bytes, pool) ==
    /\ req[p].pc = "idle"
    /\ IF ~bytes.json \/ ~pool
       THEN /\ Panic(p, NewReq("create_user", 0, bytes.email, 0,
                               bytes.password, NoHeader))
            /\ UNCHANGED <<now, env, server, db, uuid_ctr, hist>>
       ELSE create_user_insert(p, bytes.email, bytes.password)

\* POST /user/search: a body that does not parse is answered with 400, then
\* db_pool.get().await.unwrap() and validate_user_token
search_users(p, bytes, hdr, pool) ==
    /\ req[p].pc = "idle"
    /\ LET r == NewReq("search_users", bytes.user_id, bytes.email, 0,
                       NoPassword, hdr) IN
       IF ~bytes.json
       THEN /\ Respond(p, r, "Malformed", 0, {})
            /\ UNCHANGED <<now, env, server, db, uuid_ctr, hist>>
       ELSE IF ~pool
       THEN /\ Panic(p, r)
            /\ UNCHANGED <<now, env, server, db, uuid_ctr, hist>>
       ELSE search_users_validate(p, bytes.user_id, bytes.email, hdr)

\* the values of the user_id header of POST /user/data
UserIdHeaders == {"missing", "opaque", "text", "int"}

\* POST /user/data: the user_id header is required,
\* headers.get("user_id").unwrap().to_str().unwrap() and parse::<i32>, then
\* db_pool.get().await.unwrap() and validate_user_token
upload_user_data(p, uid_hdr, user_id, filename, hdr, pool) ==
    /\ req[p].pc = "idle"
    /\ LET r == [NewReq("upload_user_data", user_id, NoEmail, 0, NoPassword,
                        hdr)
                    EXCEPT !.filename = filename] IN
       IF uid_hdr \in {"missing", "text"}
       THEN /\ Respond(p, r, "Malformed", 0, {})
            /\ UNCHANGED <<now, env, server, db, uuid_ctr, hist>>
       ELSE IF uid_hdr = "opaque" \/ ~pool
       THEN /\ Panic(p, r)
            /\ UNCHANGED <<now, env, server, db, uuid_ctr, hist>>
       ELSE upload_user_data_validate(p, user_id, filename, hdr)

----------------------------------------------------------------------------
(* Specifications *)

EnvValues ==
    [verification_enabled : BOOLEAN, verification_required : BOOLEAN,
     otp_exp : {0, 1}, verify_exp : {0, 1}, token_exp : {0, 1}]

\* the state after startup, with every connection in state c
InitState(E, c) ==
    /\ now = 0
    /\ env \in E
    /\ users = <<>>
    /\ users_tokens = {}
    /\ users_otp = <<>>
    /\ users_verified = <<>>
    /\ users_data = <<>>
    /\ uuid_ctr = 0
    /\ conn = [p \in Procs |-> c]
    /\ server = [running |-> TRUE, abandoned |-> 0]
    /\ req = [p \in Procs |-> IdleReq]
    /\ resp = NoResp
    /\ otp_ok = <<>>
    /\ verify_ok = [t \in 1..MaxUuid |-> 0]
    /\ verify_issued = {}

\* the same with the clients connected and their handshakes completed
InitWith(E) == InitState(E, EstablishedConn)

\* account ids a request can claim: users.email is unique, so there are at
\* most as many accounts as emails
UserIds == 1..Cardinality(Emails)
Tokens == 0..MaxUuid

Idle == \A p \in Procs : req[p].pc = "idle"

\* the new password each client asks for
NewPassword(p) == IF p = "c1" THEN "pw1" ELSE "pw2"

\* password-reset flow, one client
InitOtp ==
    InitWith({e \in EnvValues : /\ e.verification_enabled = FALSE
                                /\ e.verification_required = FALSE
                                /\ e.verify_exp = 1
                                /\ e.token_exp = 1})

NextOtp ==
    \/ Idle /\ Tick
    \/ \E p \in {"c1"} :
        \/ create_user_insert(p, "a@email.com", "pw0")
        \/ create_user_create_token(p)
        \/ \E u \in UserIds, e \in Emails, h \in Headers :
                create_otp_validate(p, u, e, h)
        \/ create_otp_get_user(p)
        \/ create_otp_insert(p)
        \/ \E u \in UserIds, e \in Emails, t \in Tokens, h \in Headers :
                consume_user_otp_validate(p, u, e, t, NewPassword(p), h)
        \/ consume_user_otp_get_user(p)
        \/ consume_user_otp_get_otp(p)
        \/ consume_user_otp_update_otp(p)
        \/ consume_user_otp_update_user(p)
        \/ \E u \in UserIds, e \in Emails, h \in Headers :
                delete_user_validate(p, u, e, h)
        \/ delete_user_update(p)

SpecOtp == InitOtp /\ [][NextOtp]_vars

\* password-reset flow, two clients whose consume requests interleave at
\* every storage round trip; a client presents a uuid get_uuid has handed
\* out, or 0 for one it never will
NextOtpRace ==
    \/ Tick
    \/ Idle /\ create_user_insert("c1", "a@email.com", "pw0")
    \/ create_user_create_token("c1")
    \/ Idle /\ \E u \in UserIds, h \in SentHeaders :
                create_otp_validate("c1", u, "a@email.com", h)
    \/ create_otp_get_user("c1")
    \/ create_otp_insert("c1")
    \/ \E p \in Procs :
        \/ \E u \in UserIds, t \in 0..uuid_ctr, h \in SentHeaders :
                consume_user_otp_validate(p, u, "a@email.com", t,
                                          NewPassword(p), h)
        \/ consume_user_otp_get_user(p)
        \/ consume_user_otp_get_otp(p)
        \/ consume_user_otp_update_otp(p)
        \/ consume_user_otp_update_user(p)

SpecOtpRace == InitOtp /\ [][NextOtpRace]_vars

\* email-verification flow, one client
InitVerify ==
    InitWith({e \in EnvValues : /\ e.verification_required = FALSE
                                /\ e.otp_exp = 1
                                /\ e.token_exp = 1})

NextVerify ==
    \/ Idle /\ Tick
    \/ \E p \in {"c1"} :
        \/ create_user_insert(p, "a@email.com", "pw0")
        \/ create_user_create_token(p)
        \/ create_user_upsert(p)
        \/ \E u \in UserIds, e \in Emails \cup {NoEmail},
              f \in {{}, {"password"}}, h \in Headers :
                update_user_validate(p, u, e, f, h)
        \/ update_user_get_user(p)
        \/ update_user_update(p)
        \/ update_user_upsert_user(p)
        \/ update_user_upsert_verified(p)
        \/ \E u \in UserIds, t \in Tokens : verify_user_get_user(p, u, t)
        \/ verify_user_get_verify(p)
        \/ verify_user_update_verified(p)
        \/ verify_user_update_user(p)

SpecVerify == InitVerify /\ [][NextVerify]_vars

\* the verification token stored for an account, as mailed to its owner
StoredTokens(u) == {users_verified[i].token : i \in VerifyRows(u)}

\* email-verification flow, two clients whose verify requests present the
\* stored token and interleave at every storage round trip
InitVerifyRace ==
    InitWith({e \in EnvValues : /\ e.verification_enabled = TRUE
                                /\ e.verification_required = FALSE
                                /\ e.otp_exp = 1
                                /\ e.token_exp = 1})

NextVerifyRace ==
    \/ Tick
    \/ Idle /\ create_user_insert("c1", "a@email.com", "pw0")
    \/ create_user_create_token("c1")
    \/ create_user_upsert("c1")
    \/ \E p \in Procs :
        \/ \E u \in UserIds : \E t \in StoredTokens(u) :
                verify_user_get_user(p, u, t)
        \/ verify_user_get_verify(p)
        \/ verify_user_update_verified(p)
        \/ verify_user_update_user(p)

SpecVerifyRace == InitVerifyRace /\ [][NextVerifyRace]_vars

\* handle_request: every route of the dispatcher, one client
RoutesEnv ==
    {e \in EnvValues : /\ e.verification_enabled = TRUE
                       /\ e.verification_required = FALSE
                       /\ e.otp_exp = 1
                       /\ e.verify_exp = 1
                       /\ e.token_exp = 1}

InitRoutes == InitWith(RoutesEnv)

handle_request(p) ==
    \* POST /user
    \/ create_user_insert(p, "a@email.com", "pw0")
    \/ create_user_create_token(p)
    \/ create_user_upsert(p)
    \* DELETE /user
    \/ \E u \in UserIds, h \in SentHeaders :
            delete_user_validate(p, u, "a@email.com", h)
    \/ delete_user_update(p)
    \* PUT /user
    \/ \E u \in UserIds, h \in SentHeaders,
          b \in {<<"b@email.com", {}>>, <<NoEmail, {}>>,
                 <<NoEmail, {"password"}>>} :
            update_user_validate(p, u, b[1], b[2], h)
    \/ update_user_get_user(p)
    \/ update_user_update(p)
    \/ update_user_upsert_user(p)
    \/ update_user_upsert_verified(p)
    \* POST /user/search
    \/ \E u \in UserIds, h \in SentHeaders :
            search_users_validate(p, u, "a@email.com", h)
    \/ search_users_query(p)
    \* POST /user/data
    \/ \E u \in UserIds, h \in SentHeaders :
            upload_user_data_validate(p, u, "f0", h)
    \/ upload_user_data_insert(p)
    \* PUT /user/data
    \/ \E u \in UserIds, d \in 1..MaxData, h \in SentHeaders :
            update_user_data_validate(p, u, d, "f1", h)
    \/ update_user_data_update(p)
    \* POST /user/data/search
    \/ \E u \in UserIds, h \in SentHeaders : search_user_data_validate(p, u, h)
    \/ search_user_data_query(p)
    \* POST /user/password/reset
    \/ \E u \in UserIds, h \in SentHeaders :
            create_otp_validate(p, u, "a@email.com", h)
    \/ create_otp_get_user(p)
    \/ create_otp_insert(p)
    \* POST /user/password/change
    \/ \E u \in UserIds, t \in Tokens, h \in SentHeaders :
            consume_user_otp_validate(p, u, "a@email.com", t,
                                      NewPassword(p), h)
    \/ consume_user_otp_get_user(p)
    \/ consume_user_otp_get_otp(p)
    \/ consume_user_otp_update_otp(p)
    \/ consume_user_otp_update_user(p)
    \* POST /login
    \/ \E e \in Emails, w \in {"pw0", "pw1"} : login_user_select(p, e, w)
    \/ login_user_create_token(p)
    \* GET /user/verify
    \/ \E u \in UserIds, t \in Tokens : verify_user_get_user(p, u, t)
    \/ verify_user_get_verify(p)
    \/ verify_user_update_verified(p)
    \/ verify_user_update_user(p)
    \* GET /user/{id}
    \/ \E u \in UserIds, h \in SentHeaders : get_user_validate(p, u, h)
    \/ get_user_get(p)

Init == InitRoutes

Next == handle_request("c1")

Spec == Init /\ [][Next]_vars

\* session tokens: issued by registration and login, verified by an
\* authenticated read, with every lifetime
InitJwt ==
    InitWith({e \in EnvValues : /\ e.verification_enabled = FALSE
                                /\ e.verification_required = FALSE
                                /\ e.otp_exp = 1
                                /\ e.verify_exp = 1})

NextJwt ==
    \/ Idle /\ Tick
    \/ \E p \in {"c1"} :
        \/ \E e \in Emails : create_user_insert(p, e, "pw0")
        \/ create_user_create_token(p)
        \/ \E e \in Emails : login_user_select(p, e, "pw0")
        \/ login_user_create_token(p)
        \/ \E u \in UserIds, h \in Headers : get_user_validate(p, u, h)
        \/ get_user_get(p)

SpecJwt == InitJwt /\ [][NextJwt]_vars

\* the token-lifecycle endpoints and the deactivation of the account, one
\* client, verification switched on or off
InitInactive ==
    InitWith({e \in EnvValues : /\ e.verification_required = FALSE
                                /\ e.otp_exp = 1
                                /\ e.verify_exp = 1
                                /\ e.token_exp = 1})

NextInactive ==
    \E p \in {"c1"} :
        \/ create_user_insert(p, "a@email.com", "pw0")
        \/ create_user_create_token(p)
        \/ create_user_upsert(p)
        \/ \E u \in UserIds, h \in SentHeaders :
                delete_user_validate(p, u, "a@email.com", h)
        \/ delete_user_update(p)
        \/ \E u \in UserIds, h \in SentHeaders :
                create_otp_validate(p, u, "a@email.com", h)
        \/ create_otp_get_user(p)
        \/ create_otp_insert(p)
        \/ \E u \in UserIds, t \in Tokens, h \in SentHeaders :
                consume_user_otp_validate(p, u, "a@email.com", t,
                                          NewPassword(p), h)
        \/ consume_user_otp_get_user(p)
        \/ consume_user_otp_get_otp(p)
        \/ consume_user_otp_update_otp(p)
        \/ consume_user_otp_update_user(p)
        \/ \E u \in UserIds, t \in Tokens : verify_user_get_user(p, u, t)
        \/ verify_user_get_verify(p)
        \/ verify_user_update_verified(p)
        \/ verify_user_update_user(p)

SpecInactive == InitInactive /\ [][NextInactive]_vars

\* password-reset flow with two accounts, one client that acts for either
InitOtpAccounts == InitOtp

NextOtpAccounts ==
    \E p \in {"c1"} :
        \/ \E e \in Emails : create_user_insert(p, e, "pw0")
        \/ create_user_create_token(p)
        \/ \E u \in UserIds, e \in Emails, h \in SentHeaders :
                create_otp_validate(p, u, e, h)
        \/ create_otp_get_user(p)
        \/ create_otp_insert(p)
        \/ \E u \in UserIds, e \in Emails, t \in Tokens, h \in SentHeaders :
                consume_user_otp_validate(p, u, e, t, NewPassword(p), h)
        \/ consume_user_otp_get_user(p)
        \/ consume_user_otp_get_otp(p)
        \/ consume_user_otp_update_otp(p)
        \/ consume_user_otp_update_user(p)

SpecOtpAccounts == InitOtpAccounts /\ [][NextOtpAccounts]_vars

\* password-reset flow of one account that asks for a second reset token,
\* one client
MaxOtpHistory == 2

InitOtpHistory == InitOtp

NextOtpHistory ==
    \/ Idle /\ Tick
    \/ \E p \in {"c1"} :
        \/ create_user_insert(p, "a@email.com", "pw0")
        \/ create_user_create_token(p)
        \/ \E h \in SentHeaders :
                create_otp_validate_upto(MaxOtpHistory, p, 1, "a@email.com", h)
        \/ create_otp_get_user(p)
        \/ create_otp_insert(p)
        \/ \E t \in 0..uuid_ctr, h \in SentHeaders :
                consume_user_otp_validate(p, 1, "a@email.com", t,
                                          NewPassword(p), h)
        \/ consume_user_otp_get_user(p)
        \/ consume_user_otp_get_otp(p)
        \/ consume_user_otp_update_otp(p)
        \/ consume_user_otp_update_user(p)

SpecOtpHistory == InitOtpHistory /\ [][NextOtpHistory]_vars

\* the accept loop, the connection tasks and the handlers they call
InitServer == InitState(RoutesEnv, ClosedConn)

NextServer ==
    \/ \E p \in Procs : client_connect(p)
    \/ \E p \in Procs : accept(p)
    \/ \E p \in Procs, hello \in ClientHellos : tls_accept(p, hello)
    \/ \E p \in Procs : client_abandon(p)
    \/ \E p \in Procs : client_close(p)
    \/ \E p \in Procs :
        \* POST /user
        \/ \E b \in {MalformedBody, JsonBody(0, "a@email.com", "pw0")},
              pool \in BOOLEAN :
                Established(p) /\ create_user(p, b, pool)
        \/ server.running /\ create_user_create_token(p)
        \/ server.running /\ create_user_upsert(p)
        \* POST /user/search
        \/ \E b \in {MalformedBody} \cup
                        {JsonBody(u, "a@email.com", NoPassword) :
                            u \in UserIds},
              h \in SentHeaders \cup {OpaqueHeader}, pool \in BOOLEAN :
                Established(p) /\ search_users(p, b, h, pool)
        \/ server.running /\ search_users_query(p)
        \* POST /user/data
        \/ \E uh \in UserIdHeaders, u \in UserIds,
              h \in SentHeaders \cup {OpaqueHeader}, pool \in BOOLEAN :
                Established(p) /\ upload_user_data(p, uh, u, "f0", h, pool)
        \/ server.running /\ upload_user_data_insert(p)

SpecServer == InitServer /\ [][NextServer]_vars

\* registration, login, verification and an authenticated read with
\* USER_EMAIL_VERIFICATION_REQUIRED=1, one client
InitRequired ==
    InitWith({e \in EnvValues : /\ e.verification_required = TRUE
                                /\ e.otp_exp = 1
                                /\ e.verify_exp = 1
                                /\ e.token_exp = 1})

NextRequired ==
    \/ Idle /\ Tick
    \/ \E p \in {"c1"} :
        \/ \E e \in Emails : create_user_insert(p, e, "pw0")
        \/ create_user_create_token(p)
        \/ create_user_upsert(p)
        \/ \E e \in Emails : login_user_select(p, e, "pw0")
        \/ login_user_create_token(p)
        \/ \E u \in UserIds, t \in 0..uuid_ctr : verify_user_get_user(p, u, t)
        \/ verify_user_get_verify(p)
        \/ verify_user_update_verified(p)
        \/ verify_user_update_user(p)
        \/ \E u \in UserIds, h \in Headers : get_user_validate(p, u, h)
        \/ get_user_get(p)

SpecRequired == InitRequired /\ [][NextRequired]_vars

\* registrations, logins and email changes with verification switched on:
\* c1 changes emails, c2 registers, logs in and changes emails
MaxUuidEmails == 5

InitEmails == InitVerifyRace

NextEmails ==
    \/ \E e \in Emails : create_user_insert_upto(MaxUuidEmails, "c2", e, "pw0")
    \/ create_user_create_token("c2")
    \/ create_user_upsert("c2")
    \/ \E e \in Emails : login_user_select("c2", e, "pw0")
    \/ login_user_create_token("c2")
    \/ \E p \in Procs :
        \/ \E u \in UserIds, e \in Emails, h \in SentHeaders :
                update_user_validate_upto(MaxUuidEmails, p, u, e, {}, h)
        \/ update_user_get_user(p)
        \/ update_user_update(p)
        \/ update_user_upsert_user(p)
        \/ update_user_upsert_verified(p)

SpecEmails == InitEmails /\ [][NextEmails]_vars

\* registrations, email changes and authenticated reads of one client,
\* verification switched off
InitSubject ==
    InitWith({e \in EnvValues : /\ e.verification_enabled = FALSE
                                /\ e.verification_required = FALSE
                                /\ e.otp_exp = 1
                                /\ e.verify_exp = 1
                                /\ e.token_exp = 1})

NextSubject ==
    \/ Idle /\ Tick
    \/ \E p \in {"c1"} :
        \/ \E e \in Emails : create_user_insert(p, e, "pw0")
        \/ create_user_create_token(p)
        \/ \E u \in UserIds, e \in Emails, h \in SentHeaders :
                update_user_validate(p, u, e, {}, h)
        \/ update_user_get_user(p)
        \/ update_user_update(p)
        \/ \E u \in UserIds, h \in SentHeaders : get_user_validate(p, u, h)
        \/ get_user_get(p)

SpecSubject == InitSubject /\ [][NextSubject]_vars

\* an email change of c1 and a verification of c2 for the account c1
\* registered, verification switched on
InitVerifyEmailRace == InitVerifyRace

NextVerifyEmailRace ==
    \/ Idle /\ create_user_insert("c1", "a@email.com", "pw0")
    \/ create_user_create_token("c1")
    \/ create_user_upsert("c1")
    \/ \E u \in UserIds, h \in SentHeaders :
            update_user_validate("c1", u, "b@email.com", {}, h)
    \/ update_user_get_user("c1")
    \/ update_user_update("c1")
    \/ update_user_upsert_user("c1")
    \/ update_user_upsert_verified("c1")
    \/ \E u \in UserIds : \E t \in StoredTokens(u) :
            verify_user_get_user("c2", u, t)
    \/ verify_user_get_verify("c2")
    \/ verify_user_update_verified("c2")
    \/ verify_user_update_user("c2")

SpecVerifyEmailRace == InitVerifyEmailRace /\ [][NextVerifyEmailRace]_vars

\* password-reset flow of one client with a storage that can refuse the
\* UPDATE users and a client that can go away at every await
InitOtpFaults == InitOtp

NextOtpFaults ==
    \/ Idle /\ Tick
    \/ \E p \in {"c1"} :
        \/ create_user_insert(p, "a@email.com", "pw0")
        \/ create_user_create_token(p)
        \/ \E h \in SentHeaders : create_otp_validate(p, 1, "a@email.com", h)
        \/ create_otp_get_user(p)
        \/ create_otp_insert(p)
        \/ \E t \in 0..uuid_ctr, h \in SentHeaders :
                consume_user_otp_validate(p, 1, "a@email.com", t,
                                          NewPassword(p), h)
        \/ consume_user_otp_get_user(p)
        \/ consume_user_otp_get_otp(p)
        \/ consume_user_otp_update_otp(p)
        \/ consume_user_otp_update_user(p)
        \/ consume_user_otp_update_user_err(p)
        \/ cancel(p)

SpecOtpFaults == InitOtpFaults /\ [][NextOtpFaults]_vars

\* registrations and deactivations of one client, verification switched
\* off
InitDelete == InitSubject

NextDelete ==
    \E p \in {"c1"} :
        \/ \E e \in Emails : create_user_insert(p, e, "pw0")
        \/ create_user_create_token(p)
        \/ \E u \in UserIds, e \in Emails, h \in SentHeaders :
                delete_user_validate(p, u, e, h)
        \/ delete_user_update(p)
        \/ \E u \in UserIds, h \in SentHeaders : get_user_validate(p, u, h)
        \/ get_user_get(p)

SpecDelete == InitDelete /\ [][NextDelete]_vars

\* password-reset flow of one client whose account changes its email
InitOtpEmail == InitOtp

NextOtpEmail ==
    \E p \in {"c1"} :
        \/ create_user_insert(p, "a@email.com", "pw0")
        \/ create_user_create_token(p)
        \/ \E e \in Emails : login_user_select(p, e, "pw0")
        \/ login_user_create_token(p)
        \/ \E e \in Emails, h \in SentHeaders :
                update_user_validate(p, 1, e, {}, h)
        \/ update_user_get_user(p)
        \/ update_user_update(p)
        \/ \E e \in Emails, h \in SentHeaders : create_otp_validate(p, 1, e, h)
        \/ create_otp_get_user(p)
        \/ create_otp_insert(p)
        \/ \E e \in Emails, t \in 0..uuid_ctr, h \in SentHeaders :
                consume_user_otp_validate(p, 1, e, t, NewPassword(p), h)
        \/ consume_user_otp_get_user(p)
        \/ consume_user_otp_get_otp(p)
        \/ consume_user_otp_update_otp(p)
        \/ consume_user_otp_update_user(p)

SpecOtpEmail == InitOtpEmail /\ [][NextOtpEmail]_vars

\* uploads and updates of data records by the accounts of one client,
\* verification switched off
InitData == InitSubject

NextData ==
    \E p \in {"c1"} :
        \/ \E e \in Emails : create_user_insert(p, e, "pw0")
        \/ create_user_create_token(p)
        \/ \E u \in UserIds, h \in SentHeaders :
                upload_user_data_validate(p, u, "f0", h)
        \/ upload_user_data_insert(p)
        \/ \E u \in UserIds, d \in 1..MaxData, f \in {NoFilename, "f1"},
              h \in SentHeaders :
                update_user_data_validate(p, u, d, f, h)
        \/ update_user_data_update(p)

SpecData == InitData /\ [][NextData]_vars

\* the PooledConnection of the requests of two clients: handlers that
\* return with success, with an error, by a panic, and that are cancelled
InitPool == InitSubject

NextPool ==
    \E p \in Procs :
        \/ \E b \in {MalformedBody, JsonBody(0, "a@email.com", "pw0")},
              pool \in BOOLEAN :
                create_user(p, b, pool)
        \/ create_user_create_token(p)
        \/ \E b \in {MalformedBody, JsonBody(1, "a@email.com", NoPassword)},
              h \in SentHeaders \cup {OpaqueHeader}, pool \in BOOLEAN :
                search_users(p, b, h, pool)
        \/ search_users_query(p)
        \/ \E e \in Emails, h \in SentHeaders :
                consume_user_otp_validate(p, 1, e, 0, NewPassword(p), h)
        \/ consume_user_otp_get_user(p)
        \/ consume_user_otp_get_otp(p)
        \/ cancel(p)

SpecPool == InitPool /\ [][NextPool]_vars

\* the requests of one connection: c1 and c2 are the futures that
\* Service::call returns for two requests the connection task reads from
\* its stream
InitStreams ==
    \E a \in AlpnProtocols :
        InitState(RoutesEnv, [EstablishedConn EXCEPT !.alpn = a])

\* http.serve_connection hands the next request of the stream to
\* Service::call: over http/1.1 when the response of the request before it
\* is written, over h2 as soon as its stream is opened
call(p) ==
    /\ Established(p)
    /\ conn[p].alpn = "http/1.1"
            => \A q \in Procs \ {p} : req[q].pc = "idle"

NextStreams ==
    \/ Idle /\ Tick
    \/ \E p \in Procs :
          \* POST /user
          \/ call(p) /\ create_user_insert(p, "a@email.com", "pw0")
          \/ create_user_create_token(p)
          \/ create_user_upsert(p)
          \* POST /login
          \/ call(p) /\ login_user_select(p, "a@email.com", "pw0")
          \/ login_user_create_token(p)
          \* GET /user/1
          \/ call(p) /\ \E h \in SentHeaders : get_user_validate(p, 1, h)
          \/ get_user_get(p)

SpecStreams == InitStreams /\ [][NextStreams]_vars

----------------------------------------------------------------------------
(* Request dispatcher : handle_request *)

\* the request lines a client sends, each a method and a path; a path is
\* the sequence of its segments, "/" is <<>>: one for every arm of the
\* match, two more for each test of the wildcard arm, and eight more
RequestLines ==
    {<<"POST", <<>>>>, <<"POST", <<"user">>>>, <<"DELETE", <<"user">>>>,
     <<"PUT", <<"user">>>>, <<"POST", <<"user", "search">>>>,
     <<"POST", <<"user", "data">>>>, <<"PUT", <<"user", "data">>>>,
     <<"POST", <<"user", "data", "search">>>>,
     <<"POST", <<"user", "password", "reset">>>>,
     <<"POST", <<"user", "password", "change">>>>,
     <<"POST", <<"login">>>>, <<"GET", <<"metrics">>>>,
     <<"GET", <<"favicon.ico">>>>,
     <<"GET", <<"user", "verify">>>>, <<"GET", <<"api", "user", "verify">>>>,
     <<"GET", <<"user", "1">>>>, <<"GET", <<"api", "user", "1">>>>,
     <<"GET", <<"user">>>>, <<"GET", <<>>>>, <<"GET", <<"users">>>>,
     <<"POST", <<"user", "verify">>>>, <<"POST", <<"user", "1">>>>,
     <<"PUT", <<"user", "search">>>>, <<"DELETE", <<"login">>>>,
     <<"PATCH", <<"user">>>>}

\* request_uri.contains("/user/verify")
contains_user_verify(path) ==
    \E i \in 1..(Len(path) - 1) : path[i] = "user" /\ path[i + 1] = "verify"

\* request_uri.contains("/user/")
contains_user(path) == \E i \in 1..(Len(path) - 1) : path[i] = "user"

\* the match of handle_request on (method, path): the arms with a literal
\* path in the order of the code, then the two tests of the wildcard arm
route(method, path) ==
    CASE method = "POST" /\ path = <<>> -> "post_root"
      [] method = "POST" /\ path = <<"user">> -> "create_user"
      [] method = "DELETE" /\ path = <<"user">> -> "delete_user"
      [] method = "PUT" /\ path = <<"user">> -> "update_user"
      [] method = "POST" /\ path = <<"user", "search">> -> "search_users"
      [] method = "POST" /\ path = <<"user", "data">> -> "upload_user_data"
      [] method = "PUT" /\ path = <<"user", "data">> -> "update_user_data"
      [] method = "POST" /\ path = <<"user", "data", "search">>
            -> "search_user_data"
      [] method = "POST" /\ path = <<"user", "password", "reset">>
            -> "create_otp"
      [] method = "POST" /\ path = <<"user", "password", "change">>
            -> "consume_user_otp"
      [] method = "POST" /\ path = <<"login">> -> "login_user"
      [] method = "GET" /\ path = <<"metrics">> -> "handle_showing_metrics"
      [] method = "GET" /\ path = <<"favicon.ico">> -> "favicon"
      [] OTHER ->
            IF method = "GET" /\ contains_user_verify(path) THEN "verify_user"
            ELSE IF method = "GET" /\ contains_user(path) THEN "get_user"
            ELSE "unsupported"

\* get_user: str::replace(request_uri, "/user/", "").parse::<i32>()
\* .unwrap_or(-1)
parse_user_id(path) == IF path = <<"user", "1">> THEN 1 ELSE -1

\* the request (method, path) as the dispatcher answers it itself
UriReq(op, method, path) ==
    [NewReq(op, 0, NoEmail, 0, NoPassword, NoHeader)
        EXCEPT !.uri = [method |-> method, path |-> path]]

\* the same dispatcher handing what the wildcard arm does not match to
\* get_user
handle_request_fallthrough(p, method, path) ==
    /\ req[p].pc = "idle"
    /\ IF route(method, path) = "unsupported"
       THEN \E hdr \in SentHeaders : get_user_validate(p, 1, hdr)
       ELSE /\ Respond(p, UriReq(route(method, path), method, path), "ok",
                       0, {})
            /\ UNCHANGED <<now, env, server, db, uuid_ctr, hist>>

\* handle_request for one request of the client p: the arm the request
\* takes and the opening step of the handler of that arm, with the token
\* header hdr of the request and the one-time token it names
handle_request_arm(p, method, path) ==
    /\ req[p].pc = "idle"
    /\ LET arm == route(method, path) IN
       CASE arm = "create_user" -> create_user_insert(p, "a@email.com", "pw0")
         [] arm = "delete_user" ->
                \E hdr \in SentHeaders :
                    delete_user_validate(p, 1, "a@email.com", hdr)
         [] arm = "update_user" ->
                \E hdr \in SentHeaders :
                    update_user_validate(p, 1, "b@email.com", {}, hdr)
         [] arm = "search_users" ->
                \E hdr \in SentHeaders :
                    search_users_validate(p, 1, "a@email.com", hdr)
         [] arm = "upload_user_data" ->
                \E hdr \in SentHeaders :
                    upload_user_data_validate(p, 1, "f0", hdr)
         [] arm = "update_user_data" ->
                \E hdr \in SentHeaders :
                    update_user_data_validate(p, 1, 1, "f1", hdr)
         [] arm = "search_user_data" ->
                \E hdr \in SentHeaders : search_user_data_validate(p, 1, hdr)
         [] arm = "create_otp" ->
                \E hdr \in SentHeaders :
                    create_otp_validate(p, 1, "a@email.com", hdr)
         [] arm = "consume_user_otp" ->
                \E hdr \in SentHeaders, token \in 0..uuid_ctr :
                    consume_user_otp_validate(p, 1, "a@email.com", token,
                                              NewPassword(p), hdr)
         [] arm = "login_user" -> login_user_select(p, "a@email.com", "pw0")
         [] arm = "verify_user" ->
                \E token \in 0..uuid_ctr : verify_user_get_user(p, 1, token)
         [] arm = "get_user" ->
                IF parse_user_id(path) <= 0
                THEN /\ Respond(p, UriReq("get_user", method, path),
                                "Malformed", 0, {})
                     /\ UNCHANGED <<now, env, server, db, uuid_ctr, hist>>
                ELSE \E hdr \in SentHeaders :
                        get_user_validate(p, parse_user_id(path), hdr)
         [] arm \in {"post_root", "handle_showing_metrics", "favicon"} ->
                /\ Respond(p, UriReq(arm, method, path), "ok", 0, {})
                /\ UNCHANGED <<now, env, server, db, uuid_ctr, hist>>
         [] OTHER ->
                /\ Respond(p, UriReq("unsupported", method, path),
                           "Unsupported", 0, {})
                /\ UNCHANGED <<now, env, server, db, uuid_ctr, hist>>

\* the steps of the handlers behind their opening step
handler_steps(p) ==
    \/ create_user_create_token(p)
    \/ create_user_upsert(p)
    \/ delete_user_update(p)
    \/ update_user_get_user(p)
    \/ update_user_update(p)
    \/ update_user_upsert_user(p)
    \/ update_user_upsert_verified(p)
    \/ search_users_query(p)
    \/ upload_user_data_insert(p)
    \/ update_user_data_update(p)
    \/ search_user_data_query(p)
    \/ create_otp_get_user(p)
    \/ create_otp_insert(p)
    \/ consume_user_otp_get_user(p)
    \/ consume_user_otp_get_otp(p)
    \/ consume_user_otp_update_otp(p)
    \/ consume_user_otp_update_user(p)
    \/ login_user_create_token(p)
    \/ verify_user_get_verify(p)
    \/ verify_user_update_verified(p)
    \/ verify_user_update_user(p)
    \/ get_user_get(p)

\* the dispatcher with every request line, one client
InitDispatch == InitRoutes

NextDispatch ==
    \/ \E line \in RequestLines :
            handle_request_arm("c1", line[1], line[2])
    \/ handler_steps("c1")

SpecDispatch == InitDispatch /\ [][NextDispatch]_vars

----------------------------------------------------------------------------
(* Properties of the password-reset flow, under SpecOtp *)

ConsumeResp == resp.op = "consume_user_otp"

C8_PastExpirationIsExpired ==
    (ConsumeResp /\ resp.pre = "issued" /\ resp.authed
        /\ now > users_otp[resp.prow].exp_date)
        => (resp.outcome = "Expired" /\ resp.wrote = {})

----------------------------------------------------------------------------
(* Properties of the password-reset flow under concurrency, under
   SpecOtpRace *)

ConsumeInFlight == \E p \in Procs : req[p].op = "consume_user_otp"

----------------------------------------------------------------------------
(* Properties of the authenticator and of the dispatcher, under Spec *)

\* the handlers that open with validate_user_token
AuthOps ==
    {"delete_user", "update_user", "search_users", "upload_user_data",
     "update_user_data", "search_user_data", "create_otp",
     "consume_user_otp", "get_user"}

\* C3: validate_user_token fails for every header, every session token the
\* server ever issued included, when the claimed account is inactive; a
\* handler called for an inactive account answers Unauthorized and writes
\* nothing.
C3_InactiveIsUnauthorized ==
    /\ \A u \in 1..Len(users), h \in Headers :
            users[u].state # 0 => ~validate_user_token(h, u).ok
    /\ (resp.op \in AuthOps /\ resp.acct = "inactive")
        => /\ resp.outcome = "Unauthorized"
           /\ ~resp.authed
           /\ resp.wrote = {}

\* a token that the codec accepts, issued before the account was
\* deactivated, is rejected
C3_Witness ==
    /\ resp.op \in AuthOps /\ resp.acct = "inactive" /\ resp.jwt = "Ok"
    /\ resp.outcome = "Unauthorized"

\* the requests in flight and the response just returned
Requests == {req[p] : p \in Procs} \cup {resp}

\* C4 as stated: apart from registration and login, a handler writes to
\* storage only after validate_user_token succeeded in the same request.
C4_WritesAreAuthenticated ==
    \A r \in Requests :
        (r.wrote # {} /\ r.op \notin {"create_user", "login_user"})
            => r.authed

\* C4 amended: apart from registration, login and the email-verification
\* link, a handler writes to storage only after validate_user_token
\* succeeded in the same request.
C4_WritesAreAuthenticatedExceptVerify ==
    \A r \in Requests :
        (r.wrote # {}
            /\ r.op \notin {"create_user", "login_user", "verify_user"})
            => r.authed

C4_Witness ==
    /\ resp.op \in AuthOps /\ resp.authed /\ resp.outcome = "ok"
    /\ resp.wrote # {}

----------------------------------------------------------------------------
(* Properties of the email-verification flow, under SpecVerify and
   SpecVerifyRace *)

VerifyResp == resp.op = "verify_user"

\* C5 as stated: verify_user marks the account verified only when the token
\* of the request equals the token stored for the account; with any other
\* token it changes nothing.
C5_OnlyTheStoredTokenVerifies ==
    /\ (VerifyResp /\ "users.verified" \in resp.wrote) => resp.pre = "match"
    /\ (VerifyResp /\ resp.pre # "match") => resp.wrote = {}

\* C6 as stated: a verification token that was overwritten by a re-issue
\* no longer verifies the account.
C6_PriorTokenNoLongerVerifies ==
    (VerifyResp /\ resp.pre = "prior")
        => (resp.outcome # "ok" /\ resp.wrote = {})

\* C7 as stated: a verification token verifies at most once, also when the
\* verify requests interleave; a request that arrives after the account was
\* verified returns AlreadyVerified.
C7_VerifiedAtMostOnce ==
    /\ \A t \in 1..MaxUuid : verify_ok[t] <= 1
    /\ (VerifyResp /\ resp.acct = "active" /\ resp.pver = 1)
        => resp.outcome = "AlreadyVerified"

\* C9 as stated, for an active account not yet verified and a request that
\* presents the stored token: when the expiration of the token is in the
\* past, verify_user returns Expired and does not mark the account verified.
C9_PastExpirationIsExpired ==
    (VerifyResp /\ resp.pre = "match" /\ resp.acct = "active"
        /\ resp.pver = 0 /\ now > users_verified[resp.prow].exp_date)
        => (resp.outcome = "Expired" /\ resp.wrote = {})

----------------------------------------------------------------------------
(* Properties of the session token codec, under SpecJwt *)

\* epoch second of a time in ticks
epoch(t) == t \div TicksPerSec

----------------------------------------------------------------------------
(* Properties of the connection acceptor and of the unwraps of the
   handlers, under SpecServer *)

C12_HandlersNeverPanic == resp.outcome # "Panic"

\* C13 as stated: whatever the clients do, the accept loop keeps running.
C13_ClientsNeverStopTheAcceptLoop == server.running

\* C14 as stated: whatever makes validate_user_token fail, the client of a
\* handler gets the same answer, Unauthorized.
C14_AuthFailuresLookAlike ==
    (resp.op \in AuthOps /\ resp.acct # "none" /\ ~resp.authed)
        => resp.outcome = "Unauthorized"

----------------------------------------------------------------------------
(* Properties of the authenticator and of login, under Spec *)

\* C15: validate_user_token starts with the account lookup, and when the
\* claimed account is absent or inactive it fails after that lookup alone,
\* for every header: the header is not read and the codec is not called;
\* the handler answers Unauthorized.
C15_AccountLookupFirst ==
    /\ \A u \in UserIds, h \in Headers \cup {OpaqueHeader} :
            /\ validate_user_token(h, u).steps[1] = "get_user_by_id"
            /\ AcctPre(u) # "active"
                => /\ ~validate_user_token(h, u).ok
                   /\ validate_user_token(h, u).steps = <<"get_user_by_id">>
    /\ (resp.op \in AuthOps /\ resp.acct \in {"absent", "inactive"})
        => /\ resp.outcome = "Unauthorized"
           /\ resp.steps = <<"get_user_by_id">>

\* a request for an absent account that carries a session token the server
\* issued
C15_Witness ==
    /\ resp.op \in AuthOps /\ resp.acct = "absent" /\ resp.hdr.valid
    /\ resp.outcome = "Unauthorized"
    /\ resp.steps = <<"get_user_by_id">>

\* the answers of the checks a handler makes before validate_user_token
ValidationErrors == {"NoChanges", "Malformed"}

\* C16 as stated: a request without the token header to a handler that
\* authenticates is answered Unauthorized, after the account lookup as the
\* only storage access, and nothing else of the handler runs.
C16_NoHeaderIsUnauthorized ==
    (resp.op \in AuthOps /\ ~resp.hdr.present)
        => /\ resp.outcome = "Unauthorized"
           /\ resp.steps \in {<<"get_user_by_id">>,
                               <<"get_user_by_id", "headers">>}
           /\ resp.trips = 0 /\ resp.wrote = {}

\* C16 amended: a request without the token header to a handler that
\* authenticates is answered by the opening step of the handler, without
\* the codec, without a write and without a storage round trip other than
\* the account lookup: with Unauthorized when the request passes the
\* checks the handler makes on its input, and with the error of those
\* checks, before any storage access, when it does not.
C16_NoHeaderNeverPassesTheOpeningStep ==
    /\ \A p \in Procs :
            (req[p].op \in AuthOps /\ req[p].pc # "idle") => req[p].hdr.present
    /\ (resp.op \in AuthOps /\ ~resp.hdr.present)
        => /\ resp.trips = 0 /\ resp.wrote = {} /\ ~resp.authed
           /\ \/ /\ resp.outcome = "Unauthorized"
                 /\ resp.steps \in {<<"get_user_by_id">>,
                                     <<"get_user_by_id", "headers">>}
              \/ /\ resp.outcome \in ValidationErrors
                 /\ resp.steps = <<>>

\* a request without the header for an active account
C16_Witness ==
    /\ resp.op \in AuthOps /\ ~resp.hdr.present /\ resp.acct = "active"
    /\ resp.outcome = "Unauthorized"
    /\ resp.steps = <<"get_user_by_id", "headers">>

\* C17: the SELECT of login_user finds no inactive account, and a login
\* that arrives for an inactive account, whatever its password, is answered
\* without a session token: it fails, and no token is inserted.
C17_InactiveCannotLogin ==
    /\ \A i \in 1..Len(users) :
            users[i].state # 0 => i \notin LoginRows(users[i].email)
    /\ \A p \in Procs :
            (req[p].op = "login_user" /\ req[p].acct = "inactive")
                => req[p].pc # "lu_token"
    /\ (resp.op = "login_user" /\ resp.acct = "inactive")
        => (resp.outcome = "NotFound" /\ resp.wrote = {})

\* a login with the email and the password of a deactivated account
C17_Witness ==
    /\ resp.op = "login_user" /\ resp.acct = "inactive"
    /\ \E i \in 1..Len(users) :
            /\ users[i].email = resp.email /\ users[i].state # 0
            /\ users[i].password = argon_hash_encoded(resp.password)
    /\ resp.outcome = "NotFound"

----------------------------------------------------------------------------
(* Properties of the token-lifecycle endpoints for an inactive account,
   under SpecInactive *)

\* the handlers of issue_reset, consume_reset and consume_verification
LifecycleOps == {"create_otp", "consume_user_otp", "verify_user"}

\* C18 as stated: a token-lifecycle request that arrives for an inactive
\* account never reports success and changes nothing.
C18_InactiveNeverSucceeds ==
    (resp.op \in LifecycleOps /\ resp.acct = "inactive")
        => (resp.outcome # "ok" /\ resp.wrote = {})

----------------------------------------------------------------------------
(* Frame of consume_user_otp, under SpecOtpRace *)

\* the step changes the password hash of an account
PasswordChanged ==
    \E i \in 1..Len(users) : users'[i].password # users[i].password

\* the answers of consume_user_otp for a token that is absent, past its
\* expiration or consumed
ConsumeFailures == {"NotFound", "Expired", "AlreadyConsumed"}

\* C19: a step changes a password hash only when it is the final step of a
\* consume_user_otp request that answers ok, that request has moved a
\* reset token of the account from issued to consumed, it is the only
\* request that succeeded with that token, and the hash written is the one
\* of the password it asked for, on its account alone; a step in which
\* consume_user_otp answers NotFound, Expired or AlreadyConsumed changes
\* neither a password hash nor a token record.
C19_PasswordOnlyWithTransition ==
    [][/\ PasswordChanged
            => /\ resp'.op = "consume_user_otp" /\ resp'.outcome = "ok"
               /\ "users_otp" \in resp'.wrote
               /\ users_otp[resp'.id].state = 1
               /\ users_otp[resp'.id].user_id = resp'.user_id
               /\ otp_ok'[resp'.id] = 1
               /\ users' = [users EXCEPT ![resp'.user_id].password =
                                        argon_hash_encoded(resp'.password)]
       /\ (resp'.op = "consume_user_otp" /\ resp'.outcome \in ConsumeFailures)
            => /\ users' = users /\ users_otp' = users_otp
               /\ resp'.wrote = {}]_vars

\* the loser of a race answers AlreadyConsumed before the winner has
\* written the password
C19_Witness ==
    /\ ConsumeResp /\ resp.outcome = "AlreadyConsumed"
    /\ otp_ok[resp.prow] = 0
    /\ \E p \in Procs : req[p].pc = "cotp_update_user"
    /\ users[resp.user_id].password = argon_hash_encoded("pw0")

----------------------------------------------------------------------------
(* Properties of the password-reset flow with two accounts, under
   SpecOtpAccounts *)

\* the request or response r names a reset token issued for another account
ForeignToken(r) ==
    \E k \in 1..Len(users_otp) :
        users_otp[k].token = r.token /\ users_otp[k].user_id # r.user_id

\* C20 as stated: an authenticated consume_user_otp request for an account
\* that names a reset token issued for another account returns NotFound.
C20_ForeignTokenIsNotFound ==
    (ConsumeResp /\ resp.authed /\ ForeignToken(resp))
        => resp.outcome = "NotFound"

\* C20 amended: no (account, email) finds the reset token of another
\* account in the store; a consume_user_otp request for an account that
\* names a reset token issued for another account never reaches the
\* update of the token, never succeeds and writes nothing, so the password
\* of the account it claims stays as it was; when it is authenticated it
\* returns NotFound if it carries the email of the account it claims, and
\* the email-mismatch error if it carries any other email.
C20_ForeignTokenNeverAccepted ==
    /\ \A k \in 1..Len(users_otp), u \in UserIds, e \in Emails :
            u # users_otp[k].user_id
                => get_user_otp(u, e, users_otp[k].token) = 0
    /\ \A p \in Procs :
            (req[p].op = "consume_user_otp" /\ ForeignToken(req[p]))
                => req[p].pc \notin {"cotp_update_otp", "cotp_update_user"}
    /\ (ConsumeResp /\ ForeignToken(resp))
        => /\ resp.outcome # "ok" /\ resp.wrote = {}
           /\ resp.authed
                => resp.outcome =
                        IF resp.email = users[resp.user_id].email
                        THEN "NotFound" ELSE "EmailMismatch"

\* the owner of one account, authenticated, presents the reset token of
\* the other account with its own email
C20_Witness ==
    /\ ConsumeResp /\ resp.authed /\ ForeignToken(resp)
    /\ resp.email = users[resp.user_id].email
    /\ resp.outcome = "NotFound"
    /\ users[resp.user_id].password = argon_hash_encoded("pw0")

----------------------------------------------------------------------------
(* Lifetime of a session token, under Spec *)

\* C21 as stated: a session token issued to an account passes
\* validate_user_token for that account at every time up to its expiration
\* while the account is active, whatever requests ran since it was issued.
C21_OnlyExpirationEndsASession ==
    \A r \in users_tokens :
        (users[r.user_id].state = 0 /\ get_current_timestamp <= r.token.exp)
            => validate_user_token(r.token, r.user_id).ok

----------------------------------------------------------------------------
(* Records of the email-verification store, under SpecVerify *)

\* tokens stored for an account since it was registered
IssuedFor(u) == {t \in 1..MaxUuid : <<u, t>> \in verify_issued}

\* C22: after every step each account has at most one users_verified
\* record; a step adds a record only as the final step of create_user, one
\* record, for an account that had none; a step in which update_user
\* issues a new verification token adds no record and leaves every record
\* with its account.
C22_OneVerificationRecord ==
    [][/\ \A u \in UserIds :
            Cardinality({i \in 1..Len(users_verified') :
                            users_verified'[i].user_id = u}) <= 1
       /\ Len(users_verified') >= Len(users_verified)
       /\ Len(users_verified') > Len(users_verified)
            => /\ resp'.op = "create_user"
               /\ Len(users_verified') = Len(users_verified) + 1
               /\ VerifyRows(resp'.user_id) = {}
       /\ (resp'.op = "update_user" /\ "users_verified" \in resp'.wrote)
            => /\ Len(users_verified') = Len(users_verified)
               /\ \A i \in 1..Len(users_verified) :
                    users_verified'[i].user_id = users_verified[i].user_id]_vars

\* the second token of an account has replaced the first in its record
C22_Witness ==
    /\ resp.op = "update_user" /\ "users_verified" \in resp.wrote
    /\ Cardinality(IssuedFor(resp.user_id)) = 2
    /\ Cardinality(VerifyRows(resp.user_id)) = 1

----------------------------------------------------------------------------
(* Frame of create_otp, under SpecOtpHistory *)

----------------------------------------------------------------------------
(* Email change with verification enabled, under SpecVerify *)

\* the response of an update_user request that changed the email of its
\* account while verification is enabled
EmailChanged ==
    /\ resp.op = "update_user" /\ resp.outcome = "ok"
    /\ is_verification_enabled
    /\ "users.email" \in resp.wrote

\* C24: when update_user has changed the email of an account with
\* verification enabled, the account has the new email and is unverified,
\* and its one users_verified record, the record it had before, carries the
\* new email, state unverified, a token no request was given before, the
\* expiration of that token and no verification date.
C24_EmailChangeResetsVerification ==
    EmailChanged
        => /\ users[resp.user_id].email = resp.email
           /\ users[resp.user_id].verified = 0
           /\ Cardinality(VerifyRows(resp.user_id)) = 1
           /\ "users_verified" \in resp.wrote
           /\ LET v == users_verified[get_user_verify_by_user_id(
                                            resp.user_id)] IN
              /\ v.email = resp.email
              /\ v.state = 0
              /\ v.token = uuid_ctr /\ v.token = resp.token
              /\ verify_ok[v.token] = 0
              /\ v.exp_date = now + env.verify_exp * TicksPerSec
              /\ v.verify_date = NullDate

\* the email of an account that had verified its first email is changed
C24_Witness ==
    /\ EmailChanged
    /\ verify_ok[1] = 1
    /\ users_verified[get_user_verify_by_user_id(resp.user_id)].token = 2
    /\ users[resp.user_id].verified = 0

----------------------------------------------------------------------------
(* The expiration test of the one-time tokens, under SpecOtp *)

\* C25 as stated: a reset or verification token is expired exactly when now
\* is later than its expiration: consume_user_otp, for an issued token and
\* an authenticated request, answers Expired at every instant after the
\* expiration and at no instant up to it.
C25_ExpiredIffLater ==
    /\ \A k \in 1..Len(users_otp) :
            otp_expired(users_otp[k].exp_date) <=> now > users_otp[k].exp_date
    /\ \A k \in 1..Len(users_verified) :
            verify_expired(users_verified[k].exp_date)
                <=> now > users_verified[k].exp_date
    /\ (ConsumeResp /\ resp.pre = "issued" /\ resp.authed)
        => (resp.outcome = "Expired"
                <=> now > users_otp[resp.prow].exp_date)

----------------------------------------------------------------------------
(* verify_user for an account already verified, under SpecVerify *)

\* C26 as stated: a verify_user request that arrives for an account that
\* is verified is answered AlreadyVerified, without a storage access and
\* without a write.
C26_AlreadyVerifiedWithoutStorage ==
    (VerifyResp /\ resp.pver = 1)
        => /\ resp.outcome = "AlreadyVerified"
           /\ resp.steps = <<>> /\ resp.trips = 0
           /\ resp.wrote = {}

----------------------------------------------------------------------------
(* The wildcard arm of the dispatcher, under SpecDispatch *)

\* C27: a step of handle_request for a method and a path that no arm of the
\* route table matches returns the unsupported-route response in that same
\* step: the response belongs to no handler, no request is left in flight,
\* the authenticator and the storage are not called, and no table, uuid or
\* history changes.
C27_UnmatchedIsUnsupported ==
    [][\A line \in RequestLines :
        (/\ route(line[1], line[2]) = "unsupported"
         /\ handle_request_arm("c1", line[1], line[2]))
            => /\ resp'.op = "unsupported" /\ resp'.outcome = "Unsupported"
               /\ resp'.steps = <<>> /\ resp'.trips = 0 /\ resp'.wrote = {}
               /\ ~resp'.authed
               /\ \A p \in Procs : req'[p].pc = "idle"
               /\ UNCHANGED <<db, uuid_ctr, hist>>]_vars

\* GET /user, without an id, while the store holds an account and a
\* session token: the request ends in the wildcard arm and matches none of
\* its tests
C27_Witness ==
    /\ resp.outcome = "Unsupported"
    /\ resp.uri = [method |-> "GET", path |-> <<"user">>]
    /\ route(resp.uri.method, resp.uri.path) = "unsupported"
    /\ Len(users) = 1 /\ users_tokens # {}

----------------------------------------------------------------------------
(* Order of the requests of one connection, under SpecStreams *)

\* C28 as stated: a connection has at most one request in the hands of a
\* handler: the handler of a request does not start before the handler of
\* the request the connection received before it has returned its
\* response.
C28_OneHandlerPerConnection ==
    Cardinality({p \in Procs : req[p].pc # "idle"}) <= 1

----------------------------------------------------------------------------
(* The states of a connection, under SpecServer *)

\* the Err arm of acceptor.accept was taken: the task has ended and the
\* connection is dropped; hello keeps what the client opened with
HandshakeFailed(c) == c.state = "closed" /\ c.hello # "none"

\* C29: a connection is accepted from the backlog of the listener only,
\* starts its handshake when accepted, and leaves the handshake either
\* established, with a supported hello, or failed; a failed connection is
\* dropped: it is never handshaken again and never becomes established,
\* the next the server sees of that client is a new connection in the
\* backlog.
C29_ConnectionStateMachine ==
    [][\A p \in Procs :
        LET c == conn[p]
            d == conn'[p]
        IN  /\ (d.state = "queued" /\ c # d)
                => c.state = "closed" /\ d.hello = "none"
            /\ (d.state = "handshaking" /\ c # d) => c.state = "queued"
            /\ (d.state = "established" /\ c # d)
                => /\ c.state = "handshaking"
                   /\ d.hello \in SupportedVersions
            /\ (HandshakeFailed(d) /\ c # d)
                => /\ c.state = "handshaking"
                   /\ d.hello \notin SupportedVersions
            /\ HandshakeFailed(c)
                => \/ d = c
                   \/ d.state = "queued" /\ d.hello = "none"]_vars

\* one client was turned away at the handshake while the other is served
C29_Witness ==
    /\ HandshakeFailed(conn["c1"])
    /\ conn["c2"].state = "established"
    /\ req["c2"].pc # "idle"

----------------------------------------------------------------------------
(* Verification required, under SpecRequired *)

\* C30 as stated: with USER_EMAIL_VERIFICATION_REQUIRED=1 an account whose
\* email is not verified holds no session token that passes
\* validate_user_token, and no login or authenticated read of such an
\* account is answered ok.
C30_UnverifiedHoldsNoSession ==
    is_verification_required =>
        /\ \A r \in users_tokens :
            users[r.user_id].verified # 1
                => ~validate_user_token(r.token, r.user_id).ok
        /\ (/\ resp.op \in {"login_user", "get_user"}
            /\ resp.outcome = "ok")
                => users[resp.id].verified = 1

----------------------------------------------------------------------------
(* Unique emails, under SpecEmails *)

\* the statement the request of client p issues next meets the unique
\* constraint of users.email
MeetsUniqueEmail(p) ==
    \/ /\ req[p].pc = "uu_update"
       /\ get_sql(req[p].email, req[p].fields, req[p].m_email).valid
       /\ EmailInUseBy(req[p].email, (1..Len(users)) \ {req[p].user_id})
    \/ /\ req[p].pc = "uu_upsert_user"
       /\ EmailInUseBy(req[p].email, (1..Len(users)) \ {req[p].user_id})

\* C31 as stated: no two accounts share an email; a registration with an
\* email in use is answered Conflict and changes no table; and an
\* update_user whose statement meets the unique constraint of users.email
\* is answered Conflict, the request having written nothing and every
\* account and verification record staying as it is.
C31_EmailConflict ==
    [][/\ \A i, j \in 1..Len(users') :
            i # j => users'[i].email # users'[j].email
       /\ \A p \in Procs, e \in Emails :
            (/\ EmailInUse(e)
             /\ create_user_insert_upto(MaxUuidEmails, p, e, "pw0"))
                => /\ resp'.outcome = "Conflict"
                   /\ UNCHANGED <<db, uuid_ctr>>
       /\ \A p \in Procs :
            (MeetsUniqueEmail(p) /\ req'[p] # req[p])
                => /\ resp'.outcome = "Conflict"
                   /\ resp'.wrote = {}
                   /\ UNCHANGED <<users, users_verified>>]_vars

----------------------------------------------------------------------------
(* Session tokens and the accounts they were issued to, under SpecSubject *)

\* C32 as stated: a session token create_user_token stored for account A
\* passes validate_user_token for no other account B, and every request
\* that was authenticated presented a token issued to the account it
\* claims.
C32_TokenOfAnotherAccount ==
    /\ \A r \in users_tokens :
        \A u \in (1..Len(users)) \ {r.user_id} :
            ~validate_user_token(r.token, u).ok
    /\ resp.authed =>
        \E r \in users_tokens :
            r.token = resp.hdr /\ r.user_id = resp.user_id

----------------------------------------------------------------------------
(* Email change against verification, under SpecVerifyEmailRace *)

\* C33 as stated: whenever an account is marked verified, its verification
\* record carries the current email of the account and is consumed, and a
\* verification that succeeds presented the token of that record.
C33_VerifiedEmailIsCurrent ==
    /\ \A u \in 1..Len(users) :
        users[u].verified = 1 =>
            \A i \in VerifyRows(u) :
                /\ users_verified[i].email = users[u].email
                /\ users_verified[i].state = 1
    /\ (resp.op = "verify_user" /\ resp.outcome = "ok") =>
            \A i \in VerifyRows(resp.user_id) :
                users_verified[i].token = resp.token

----------------------------------------------------------------------------
(* A reset that stops between its two writes, under SpecOtpFaults *)

----------------------------------------------------------------------------
(* The account delete_user deactivates, under SpecDelete *)

\* C35 as stated: when delete_user answers with success, the account whose
\* id the request authenticated as is inactive and every other account is
\* as it was before the UPDATE.
C35_DeletesTheAuthenticatedAccount ==
    [][\A p \in Procs :
        (/\ req[p].pc = "du_update"
         /\ req'[p].pc = "idle"
         /\ resp'.outcome = "ok")
            => /\ resp'.authed
               /\ users'[req[p].user_id].state = 1
               /\ \A i \in (1..Len(users)) \ {req[p].user_id} :
                    users'[i] = users[i]]_vars

----------------------------------------------------------------------------
(* Reset tokens and the email they were issued for, under SpecOtpEmail *)

\* C36: a consume_user_otp that answers with success consumed a token
\* issued for the email the account has, and a password changes only in a
\* request that names a token issued for the email the account has: a
\* token issued under an email the account has given up resets nothing.
C36_ResetTokenBoundToEmail ==
    [][/\ (/\ resp'.op = "consume_user_otp"
           /\ resp'.outcome = "ok"
           /\ resp' # resp)
            => /\ users_otp[resp'.id].user_id = resp'.user_id
               /\ users_otp[resp'.id].email = users[resp'.user_id].email
               /\ users_otp[resp'.id].token = resp'.token
       /\ \A u \in 1..Len(users) :
            users'[u].password # users[u].password
                => \E p \in Procs :
                    /\ req[p].pc = "cotp_update_user"
                    /\ req[p].user_id = u
                    /\ \E k \in MatchOtp(u, users[u].email, req[p].token) :
                            users_otp[k].state = 1]_vars

\* the account has changed its email and a consume_user_otp naming the
\* token issued under the old one was refused, the password being the one
\* of the registration
C36_Witness ==
    /\ resp.op = "consume_user_otp"
    /\ resp.authed
    /\ resp.outcome \in {"EmailMismatch", "NotFound"}
    /\ users[1].email = "b@email.com"
    /\ users[1].password = argon_hash_encoded("pw0")
    /\ \E k \in 1..Len(users_otp) :
        /\ users_otp[k].email = "a@email.com"
        /\ users_otp[k].token = resp.token
        /\ users_otp[k].state = 0

----------------------------------------------------------------------------
(* The owner of the record update_user_data changes, under SpecData *)

\* C37 as stated: a step of an update_user_data request changes only
\* users_data records whose user_id is the account the request was
\* authenticated as.
C37_UpdatesOwnDataOnly ==
    [][\A p \in Procs :
        req[p].op = "update_user_data" =>
            \A d \in 1..Len(users_data) :
                users_data'[d] # users_data[d]
                    => /\ req[p].authed
                       /\ users_data[d].user_id = req[p].user_id]_vars

----------------------------------------------------------------------------
(* Storage handles, under SpecPool *)

\* the PooledConnections out of the pool, and the requests in flight
CheckedOut == {p \in Procs : req[p].pooled}
InFlightRequests == {p \in Procs : req[p].pc # "idle"}

\* C38: a PooledConnection is out of the pool only while the request that
\* checked it out is in flight, so there are never more of them than
\* requests in flight; a request that has ended, with a response of any
\* kind, by a panic or cancelled, holds none.
C38_HandlesReturned ==
    /\ CheckedOut \subseteq InFlightRequests
    /\ Cardinality(CheckedOut) <= Cardinality(InFlightRequests)
    /\ resp.op # "none" =>
        \E p \in Procs : req[p].pc = "idle" /\ ~req[p].pooled

\* one request was cancelled while the request of the other client waits
\* on storage with its PooledConnection
C38_Witness ==
    /\ resp.outcome = "Cancelled"
    /\ resp.trips > 0
    /\ Cardinality(CheckedOut) = 1
    /\ Len(users) = 1


----------------------------------------------------------------------------
(* C39 *)

\* the task of connection p is suspended: in acceptor.accept(conn).await, or
\* in a storage call of the handler it runs
Stalled(p) ==
    /\ server.running
    /\ \/ conn[p].state = "handshaking"
       \/ conn[p].state = "established" /\ req[p].pc # "idle"

\* C39: a connection that is stalled in its TLS handshake or waiting on
\* storage never blocks the accept loop: while it waits, every other
\* connection the loop takes from the listener is accepted and gets its
\* own task, and the loop goes on
C39_StalledNeverBlocksAccept ==
    [][\A q \in Procs :
        ((\E p \in Procs \ {q} : Stalled(p)) /\ accept(q))
            => /\ server'.running
               /\ conn'[q].state = "handshaking"]_vars

====
